---- MODULE Spec2Model ----
(***************************************************************************)
(* Model of ecrspectre's waste-classification engine: the ECR and the      *)
(* Artifact Registry scan orchestrators, the per-image classifier and the  *)
(* pricing oracle.                                                         *)
(*                                                                         *)
(* Units.  Time is counted in hours; time.Time.AddDate(0, 0, -d) is        *)
(* modelled in UTC, i.e. as subtracting d * 24 hours.  Money is exact:     *)
(* rates are in cents per GiB and a cost is sizeBytes * rate, i.e. it is   *)
(* expressed in units of 1 / (100 * 2^30) USD, so that the rational value  *)
(* of float64(sizeBytes) / 2^30 * rate is kept without rounding.           *)
(* Finding.Message is free text and is left out of the finding records.    *)
(***************************************************************************)
EXTENDS Integers, Sequences, FiniteSets, TLC

VARIABLES
    provider,     \* which scanner runs: "ecr" (ECRScanner) or "artifactregistry" (ARScanner)
    cfg,          \* registry.ScanConfig handed to Scan
    locations,    \* ARScanner.locations; for the ECR scanner the one-element <<s.region>>
    pc,           \* position of Scan: "list", "repos", "done" (or "classify"/"classified")
    locIdx,       \* index into locations of the location being scanned
    repos,        \* the repositories returned by the last successful repository listing
    repoIdx,      \* index into repos of the next repository of the range loop
    result,       \* *registry.ScanResult being accumulated
    listings,     \* history: one record per repository-listing call of Scan
    scans,        \* history: one record per scanRepository call, with what the provider returned
    img,          \* classifier input (SpecClassify): the image being analysed
    out,          \* classifier output (SpecClassify): analyzeImage's findings
    includeScan,  \* ECRScanner.includeScan (the --include-scan flag)
    deadline,     \* the context handed to Scan: "none" (--timeout 0), "armed" or "expired"
    atExpiry,     \* history: the result as it stood when the deadline expired
    arg,          \* argument of the function under study (analyzer, pricing, reports, ...)
    ret,          \* what that function returned
    progress,     \* the progress callback handed to Scan: "nil" or "callback"
    events,       \* history: the registry.ScanProgress events the callback received
    flags,        \* awsFlags / gcpFlags, the package-level flag variables of the command
    files         \* the file system: what the output path holds

ctxVars == <<deadline, atExpiry>>
fnVars == <<arg, ret>>
progVars == <<progress, events>>
cmdVars == <<flags, files>>
vars == <<provider, cfg, locations, pc, locIdx, repos, repoIdx, result, listings, scans, img, out,
          includeScan, deadline, atExpiry, arg, ret, progress, events, flags, files>>

----------------------------------------------------------------------------
(* Bounds of the model *)

MaxImages == 2          \* images per repository listing
MaxStaleDays == 2       \* largest staleness threshold tried, in days
MaxSize == 2            \* largest image size and size threshold tried, in bytes

(* Program constants *)

Now == 100              \* ECRScanner.now / ARScanner.now, in hours
HoursPerDay == 24
NoTime == -1            \* nil *time.Time (ECR) / zero time.Time (AR)

----------------------------------------------------------------------------
(* internal/registry/types.go *)

SeverityCritical == "critical"
SeverityHigh == "high"
SeverityMedium == "medium"
SeverityLow == "low"

ResourceImage == "image"
ResourceRepository == "repository"

FindingUntaggedImage == "UNTAGGED_IMAGE"
FindingStaleImage == "STALE_IMAGE"
FindingLargeImage == "LARGE_IMAGE"
FindingNoLifecyclePolicy == "NO_LIFECYCLE_POLICY"
FindingVulnerableImage == "VULNERABLE_IMAGE"
FindingUnusedRepo == "UNUSED_REPO"
FindingMultiArchBloat == "MULTI_ARCH_BLOAT"

\* registry.Finding, without Message
Finding(id, severity, resourceType, resourceID, resourceName, region, waste, metadata) ==
    [ID |-> id, Severity |-> severity, ResourceType |-> resourceType,
     ResourceID |-> resourceID, ResourceName |-> resourceName, Region |-> region,
     EstimatedMonthlyWaste |-> waste, Metadata |-> metadata]

\* the zero value of registry.ScanResult
EmptyScanResult ==
    [Findings |-> <<>>, Errors |-> <<>>, ResourcesScanned |-> 0, RepositoriesScanned |-> 0]

----------------------------------------------------------------------------
(* internal/pricing *)

\* per-GiB monthly rate in cents; every entry of the table is $0.10
StorageCosts ==
    [p \in {"ecr", "artifactregistry"} |->
        IF p = "ecr"
        THEN [r \in {"default"} |-> 10]
        ELSE [r \in {"us", "europe", "asia", "us-central1", "us-east1", "us-east4",
                     "us-west1", "us-west2", "europe-west1", "europe-west2",
                     "europe-west4", "asia-east1", "asia-southeast1", "default"} |-> 10]]

\* mutant: the `ok` of the region lookup is not checked, so a region without an
\* entry gets the zero value of the map
lookupCostPerGB_noRegionFallback(p, region) ==
    IF p \notin DOMAIN StorageCosts
    THEN StorageCosts["ecr"]["default"]
    ELSE IF region \notin DOMAIN StorageCosts[p]
         THEN 0
         ELSE StorageCosts[p][region]

lookupCostPerGB(p, region) ==
    IF p \notin DOMAIN StorageCosts
    THEN StorageCosts["ecr"]["default"]
    ELSE IF region \notin DOMAIN StorageCosts[p]
         THEN StorageCosts[p]["default"]
         ELSE StorageCosts[p][region]

MonthlyStorageCost(p, region, sizeBytes) ==
    sizeBytes * lookupCostPerGB(p, region)

----------------------------------------------------------------------------
(* Media types; strings.Contains is tabulated over the media types used *)

NoMediaType == ""       \* nil *string (ECR) / empty string (AR)
DockerManifestList == "application/vnd.docker.distribution.manifest.list.v2+json"
OCIImageIndex == "application/vnd.oci.image.index.v1+json"
MediaTypes == {NoMediaType, DockerManifestList, OCIImageIndex}

\* strings.Contains(mediaType, substr) for substr in {"manifest.list", "image.index"}
Contains(mediaType, substr) ==
    \/ substr = "manifest.list" /\ mediaType = DockerManifestList
    \/ substr = "image.index" /\ mediaType = OCIImageIndex

\* the media type is that of a multi-platform manifest list or image index
IsMultiPlatform(mediaType) == mediaType \in {DockerManifestList, OCIImageIndex}

----------------------------------------------------------------------------
(* internal/ecr/scanner.go: the per-image classifier *)

\* mutant: the pull time is ignored
lastActivityTime_pushOnly(image) == image.ImagePushedAt

\* ECRScanner.lastActivityTime: the pull time when present, else the push time
lastActivityTime(image) ==
    IF image.LastRecordedPullTime # NoTime
    THEN image.LastRecordedPullTime
    ELSE image.ImagePushedAt

\* s.now.AddDate(0, 0, -days)
AddDays(t, days) == t + days * HoursPerDay

\* mutant: an image that carries a tag of the tag exclusion set is never stale
ECR_isStale_unlessTagExcluded(c, image) ==
    /\ c.StaleDays > 0
    /\ lastActivityTime(image) # NoTime
    /\ lastActivityTime(image) < AddDays(Now, -c.StaleDays)
    /\ ~\E i \in 1..Len(image.ImageTags) : image.ImageTags[i] \in DOMAIN c.Exclude.Tags

\* lastActivity != nil && lastActivity.Before(staleThreshold), under StaleDays > 0
ECR_isStale(c, image) ==
    /\ c.StaleDays > 0
    /\ lastActivityTime(image) # NoTime
    /\ lastActivityTime(image) < AddDays(Now, -c.StaleDays)

\* mutant: an empty (zero-size) image is not reported as untagged
ECR_isUntagged_nonEmpty(image) == Len(image.ImageTags) = 0 /\ image.ImageSizeInBytes > 0

\* len(img.ImageTags) == 0
ECR_isUntagged(image) == Len(image.ImageTags) = 0

\* cfg.MaxSizeBytes > 0 && sizeBytes > cfg.MaxSizeBytes
ECR_isLarge(c, sizeBytes) == c.MaxSizeBytes > 0 /\ sizeBytes > c.MaxSizeBytes

ECR_isMultiArch(image) ==
    /\ image.ImageManifestMediaType # NoMediaType
    /\ Contains(image.ImageManifestMediaType, "manifest.list")

\* mutant: the storage cost of an image is claimed once, by the first of its findings
ECR_analyzeImage_wasteOnce(c, region, repoName, image) ==
    LET imageID == repoName \o "@" \o image.ImageDigest
        sizeBytes == image.ImageSizeInBytes
        cost == MonthlyStorageCost("ecr", region, sizeBytes)
        resourceName == IF Len(image.ImageTags) > 0 THEN repoName \o ":tags" ELSE ""
        untagged ==
            IF ECR_isUntagged(image)
            THEN << Finding(FindingUntaggedImage, SeverityHigh, ResourceImage, imageID, "",
                            region, cost, [size_bytes |-> sizeBytes]) >>
            ELSE << >>
        stale ==
            IF ECR_isStale(c, image)
            THEN << Finding(FindingStaleImage, SeverityHigh, ResourceImage, imageID,
                            resourceName, region, IF untagged = << >> THEN cost ELSE 0,
                            [days_stale |-> (Now - lastActivityTime(image)) \div HoursPerDay,
                             size_bytes |-> sizeBytes, stale_days |-> c.StaleDays]) >>
            ELSE << >>
        large ==
            IF ECR_isLarge(c, sizeBytes)
            THEN << Finding(FindingLargeImage, SeverityMedium, ResourceImage, imageID,
                            resourceName, region,
                            IF untagged \o stale = << >> THEN cost ELSE 0,
                            [size_bytes |-> sizeBytes, threshold_bytes |-> c.MaxSizeBytes]) >>
            ELSE << >>
        bloat ==
            IF ECR_isMultiArch(image) /\ ECR_isStale(c, image)
            THEN << Finding(FindingMultiArchBloat, SeverityLow, ResourceImage, imageID,
                            resourceName, region,
                            IF untagged \o stale \o large = << >> THEN cost ELSE 0,
                            [size_bytes |-> sizeBytes,
                             media_type |-> image.ImageManifestMediaType]) >>
            ELSE << >>
    IN  untagged \o stale \o large \o bloat

ECR_analyzeImage(c, region, repoName, image) ==
    LET digest == image.ImageDigest
        imageID == repoName \o "@" \o digest
        sizeBytes == image.ImageSizeInBytes
        cost == MonthlyStorageCost("ecr", region, sizeBytes)
        resourceName == IF Len(image.ImageTags) > 0 THEN repoName \o ":tags" ELSE ""
        untagged ==
            IF ECR_isUntagged(image)
            THEN << Finding(FindingUntaggedImage, SeverityHigh, ResourceImage, imageID, "",
                            region, cost, [size_bytes |-> sizeBytes]) >>
            ELSE << >>
        stale ==
            IF ECR_isStale(c, image)
            THEN << Finding(FindingStaleImage, SeverityHigh, ResourceImage, imageID,
                            resourceName, region, cost,
                            [days_stale |-> (Now - lastActivityTime(image)) \div HoursPerDay,
                             size_bytes |-> sizeBytes, stale_days |-> c.StaleDays]) >>
            ELSE << >>
        large ==
            IF ECR_isLarge(c, sizeBytes)
            THEN << Finding(FindingLargeImage, SeverityMedium, ResourceImage, imageID,
                            resourceName, region, cost,
                            [size_bytes |-> sizeBytes, threshold_bytes |-> c.MaxSizeBytes]) >>
            ELSE << >>
        bloat ==
            IF ECR_isMultiArch(image) /\ ECR_isStale(c, image)
            THEN << Finding(FindingMultiArchBloat, SeverityLow, ResourceImage, imageID,
                            resourceName, region, cost,
                            [size_bytes |-> sizeBytes,
                             media_type |-> image.ImageManifestMediaType]) >>
            ELSE << >>
    IN  untagged \o stale \o large \o bloat

----------------------------------------------------------------------------
(* internal/artifactregistry/scanner.go: the per-image classifier *)

\* cfg.StaleDays > 0 && !img.UploadTime.IsZero() && img.UploadTime.Before(staleThreshold)
AR_isStale(c, image) ==
    /\ c.StaleDays > 0
    /\ image.UploadTime # NoTime
    /\ image.UploadTime < AddDays(Now, -c.StaleDays)

\* len(img.Tags) == 0
AR_isUntagged(image) == Len(image.Tags) = 0

\* mutant: the threshold itself counts as large
AR_isLarge_inclusive(c, sizeBytes) == c.MaxSizeBytes > 0 /\ sizeBytes >= c.MaxSizeBytes

\* cfg.MaxSizeBytes > 0 && sizeBytes > cfg.MaxSizeBytes
AR_isLarge(c, sizeBytes) == c.MaxSizeBytes > 0 /\ sizeBytes > c.MaxSizeBytes

AR_isMultiArch(image) ==
    \/ Contains(image.MediaType, "manifest.list")
    \/ Contains(image.MediaType, "image.index")

AR_analyzeImage(c, repo, image) ==
    LET imageID == IF image.URI = "" THEN image.Name ELSE image.URI
        sizeBytes == image.SizeBytes
        cost == MonthlyStorageCost("artifactregistry", repo.Location, sizeBytes)
        resourceName == IF Len(image.Tags) > 0 THEN repo.RepoID \o ":tags" ELSE ""
        untagged ==
            IF AR_isUntagged(image)
            THEN << Finding(FindingUntaggedImage, SeverityHigh, ResourceImage, imageID, "",
                            repo.Location, cost, [size_bytes |-> sizeBytes]) >>
            ELSE << >>
        stale ==
            IF AR_isStale(c, image)
            THEN << Finding(FindingStaleImage, SeverityHigh, ResourceImage, imageID,
                            resourceName, repo.Location, cost,
                            [days_stale |-> (Now - image.UploadTime) \div HoursPerDay,
                             size_bytes |-> sizeBytes, stale_days |-> c.StaleDays]) >>
            ELSE << >>
        large ==
            IF AR_isLarge(c, sizeBytes)
            THEN << Finding(FindingLargeImage, SeverityMedium, ResourceImage, imageID,
                            resourceName, repo.Location, cost,
                            [size_bytes |-> sizeBytes, threshold_bytes |-> c.MaxSizeBytes]) >>
            ELSE << >>
        bloat ==
            IF AR_isMultiArch(image) /\ AR_isStale(c, image)
            THEN << Finding(FindingMultiArchBloat, SeverityLow, ResourceImage, imageID,
                            resourceName, repo.Location, cost,
                            [size_bytes |-> sizeBytes, media_type |-> image.MediaType]) >>
            ELSE << >>
    IN  untagged \o stale \o large \o bloat

----------------------------------------------------------------------------
(* The registry inventory the provider may return *)

NoMetadata == << >>     \* Finding.Metadata left nil

Provider == {"ecr", "artifactregistry"}
ECRRegion == "us-east-1"
RepoOrder == <<"r1", "r2">>                 \* repository names / IDs, in listing order
DigestNames == <<"sha256:a", "sha256:b", "sha256:c", "sha256:d">>
ErrCause == "boom"                          \* the error a failing provider call returns

\* timestamps just before and exactly at the staleness threshold of MaxStaleDays
OldTime == AddDays(Now, -MaxStaleDays) - 1
EdgeTime == AddDays(Now, -MaxStaleDays)

ECRImage(digest, tags, size, pushedAt, lastPull, mediaType) ==
    [ImageDigest |-> digest, ImageTags |-> tags, ImageSizeInBytes |-> size,
     ImagePushedAt |-> pushedAt, LastRecordedPullTime |-> lastPull,
     ImageManifestMediaType |-> mediaType]

ARImage(name, uri, tags, size, uploadTime, mediaType) ==
    [Name |-> name, URI |-> uri, Tags |-> tags, SizeBytes |-> size,
     UploadTime |-> uploadTime, MediaType |-> mediaType]

\* images a repository of the scanned inventory may hold (digest filled in by position)
\* (untagged, old, multi-arch), (tagged, pushed long ago but pulled at the threshold, big)
\* and (tagged, old, big, OCI index)
ECR_Pool ==
    { ECRImage("", << >>, MaxSize - 1, OldTime, NoTime, DockerManifestList),
      ECRImage("", <<"v1">>, MaxSize, OldTime, EdgeTime, NoMediaType),
      ECRImage("", <<"v2">>, MaxSize, OldTime, OldTime, OCIImageIndex) }

AR_Pool ==
    { ARImage("", "", << >>, MaxSize - 1, OldTime, DockerManifestList),
      ARImage("", "", <<"v1">>, MaxSize, EdgeTime, NoMediaType),
      ARImage("", "", <<"v2">>, MaxSize, OldTime, OCIImageIndex) }

ECR_ImageLists ==
    UNION { { [i \in 1..n |-> [l[i] EXCEPT !.ImageDigest = DigestNames[i]]] :
              l \in [1..n -> ECR_Pool] } : n \in 0..MaxImages }

ARRepository(location, repoID) ==
    [Name |-> "projects/p/locations/" \o location \o "/repositories/" \o repoID,
     Location |-> location, RepoID |-> repoID, Format |-> "DOCKER"]

AR_ImageLists(repo) ==
    UNION { { [i \in 1..n |->
                [l[i] EXCEPT !.Name = repo.Name \o "/dockerImages/app@" \o DigestNames[i],
                             !.URI = repo.Location \o "-docker.pkg.dev/p/" \o repo.RepoID
                                     \o "/app@" \o DigestNames[i]]] :
              l \in [1..n -> AR_Pool] } : n \in 0..MaxImages }

\* one response of a paginated Describe* call: an error, or a page of items;
\* NextToken is non-nil on every page but the last of the sequence
OkPage(items) == [Err |-> FALSE, Items |-> items]
ErrPage == [Err |-> TRUE, Items |-> << >>]

\* the ways the provider may serve `items`: in one or two pages, any of which may fail
PageSeqs(items) ==
    { <<OkPage(items)>>, <<ErrPage>> }
    \cup { <<OkPage(SubSeq(items, 1, k)), OkPage(SubSeq(items, k + 1, Len(items)))>> :
           k \in 1..(Len(items) - 1) }
    \cup { <<OkPage(SubSeq(items, 1, k)), ErrPage>> : k \in 1..Len(items) }

LifecycleReplies == {"policy", "notFound", "error"}     \* GetLifecyclePolicy outcomes

----------------------------------------------------------------------------
(* internal/ecr/client.go *)

\* mutant: an error on a later page ends the loop with the pages read so far
RECURSIVE DescribeLoop_breakOnError(_, _, _)
DescribeLoop_breakOnError(pages, i, acc) ==
    IF pages[i].Err
    THEN [err |-> (i = 1), items |-> acc, fetched |-> i]
    ELSE IF i = Len(pages)
         THEN [err |-> FALSE, items |-> acc \o pages[i].Items, fetched |-> i]
         ELSE DescribeLoop_breakOnError(pages, i + 1, acc \o pages[i].Items)

\* the pagination loop of ListRepositories and ListImages: fetch page i, fail on
\* an error, stop when NextToken is nil
RECURSIVE DescribeLoop(_, _, _)
DescribeLoop(pages, i, acc) ==
    IF pages[i].Err
    THEN [err |-> TRUE, items |-> << >>, fetched |-> i]
    ELSE IF i = Len(pages)
         THEN [err |-> FALSE, items |-> acc \o pages[i].Items, fetched |-> i]
         ELSE DescribeLoop(pages, i + 1, acc \o pages[i].Items)

ListRepositories(pages) == DescribeLoop(pages, 1, << >>)

ListImages(pages) == DescribeLoop(pages, 1, << >>)

\* mutant: every lookup error is taken for "policy not found"
HasLifecyclePolicy_anyErrorNotFound(reply) ==
    IF reply = "policy" THEN [has |-> TRUE, err |-> FALSE] ELSE [has |-> FALSE, err |-> FALSE]

\* (bool, error) of HasLifecyclePolicy for a GetLifecyclePolicy outcome
HasLifecyclePolicy(reply) ==
    IF reply = "policy" THEN [has |-> TRUE, err |-> FALSE]
    ELSE IF reply = "notFound" THEN [has |-> FALSE, err |-> FALSE]
    ELSE [has |-> FALSE, err |-> TRUE]

----------------------------------------------------------------------------
(* internal/ecr/scanner.go: scanRepository *)

AppendFinding(res, f) == [res EXCEPT !.Findings = Append(@, f)]
AppendError(res, e) == [res EXCEPT !.Errors = Append(@, e)]

CountID(findings, id) == Len(SelectSeq(findings, LAMBDA f : f.ID = id))

RECURSIVE ECR_analyzeImages(_, _, _, _)
ECR_analyzeImages(c, region, repoName, images) ==
    IF images = << >> THEN << >>
    ELSE ECR_analyzeImage(c, region, repoName, Head(images))
         \o ECR_analyzeImages(c, region, repoName, Tail(images))

\* mutant: every image is charged the size of the first one
ECR_totalWaste_firstOnly(region, images) ==
    IF images = << >> THEN 0
    ELSE Len(images) * MonthlyStorageCost("ecr", region, images[1].ImageSizeInBytes)

RECURSIVE ECR_totalWaste(_, _)
ECR_totalWaste(region, images) ==
    IF images = << >> THEN 0
    ELSE ECR_totalWaste(region, SubSeq(images, 1, Len(images) - 1))
         + MonthlyStorageCost("ecr", region, images[Len(images)].ImageSizeInBytes)

\* the lifecycle-policy check of scanRepository
ECR_checkLifecycle(region, repoName, policy, res) ==
    IF policy.err
    THEN AppendError(res, region \o "/" \o repoName \o " lifecycle: get lifecycle policy for "
                          \o repoName \o ": " \o ErrCause)
    ELSE IF ~policy.has
         THEN AppendFinding(res, Finding(FindingNoLifecyclePolicy, SeverityMedium,
                                         ResourceRepository, repoName, "", region, 0,
                                         NoMetadata))
         ELSE res

\* mutant: only the images that produced a finding are counted
ECR_scanImages_countFlagged(c, region, repoName, images, res) ==
    LET findings == ECR_analyzeImages(c, region, repoName, images)
        staleCount == CountID(findings, FindingStaleImage)
        flagged == SelectSeq(images, LAMBDA i :
                       ECR_analyzeImage(c, region, repoName, i) # << >>)
        res1 == [res EXCEPT !.ResourcesScanned = @ + Len(flagged),
                            !.Findings = @ \o findings]
    IN  IF staleCount = Len(images) /\ Len(images) > 0
        THEN AppendFinding(res1, Finding(FindingUnusedRepo, SeverityLow, ResourceRepository,
                                         repoName, "", region,
                                         ECR_totalWaste(region, images),
                                         [image_count |-> Len(images)]))
        ELSE res1

\* the image loop and the all-stale check of scanRepository
ECR_scanImages(c, region, repoName, images, res) ==
    LET findings == ECR_analyzeImages(c, region, repoName, images)
        staleCount == CountID(findings, FindingStaleImage)
        res1 == [res EXCEPT !.ResourcesScanned = @ + Len(images),
                            !.Findings = @ \o findings]
    IN  IF staleCount = Len(images) /\ Len(images) > 0
        THEN AppendFinding(res1, Finding(FindingUnusedRepo, SeverityLow, ResourceRepository,
                                         repoName, "", region,
                                         ECR_totalWaste(region, images),
                                         [image_count |-> Len(images)]))
        ELSE res1

\* mutant: no special case for a repository without images
ECR_scanRepository_noEmptyCase(c, region, repoName, listed, policy, res) ==
    IF listed.err
    THEN AppendError(res, region \o "/" \o repoName \o ": describe images for "
                          \o repoName \o ": " \o ErrCause)
    ELSE ECR_scanImages(c, region, repoName, listed.items,
                        ECR_checkLifecycle(region, repoName, policy, res))

\* ECRScanner.scanRepository: `listed` is what ListImages returned, `policy` what
\* HasLifecyclePolicy returns for this repository
ECR_scanRepository(c, region, repoName, listed, policy, res) ==
    IF listed.err
    THEN AppendError(res, region \o "/" \o repoName \o ": describe images for "
                          \o repoName \o ": " \o ErrCause)
    ELSE IF Len(listed.items) = 0
         THEN AppendFinding(res, Finding(FindingUnusedRepo, SeverityLow, ResourceRepository,
                                         repoName, "", region, 0, NoMetadata))
         ELSE ECR_scanImages(c, region, repoName, listed.items,
                             ECR_checkLifecycle(region, repoName, policy, res))

----------------------------------------------------------------------------
(* internal/artifactregistry/scanner.go: scanRepository *)

RECURSIVE AR_analyzeImages(_, _, _)
AR_analyzeImages(c, repo, images) ==
    IF images = << >> THEN << >>
    ELSE AR_analyzeImage(c, repo, Head(images)) \o AR_analyzeImages(c, repo, Tail(images))

RECURSIVE AR_totalWaste(_, _)
AR_totalWaste(repo, images) ==
    IF images = << >> THEN 0
    ELSE AR_totalWaste(repo, SubSeq(images, 1, Len(images) - 1))
         + MonthlyStorageCost("artifactregistry", repo.Location,
                              images[Len(images)].SizeBytes)

\* mutant: the return after a failed image listing is missing, so the (nil) image
\* list is taken for an empty repository
AR_scanRepository_noReturn(c, repo, listed, res) ==
    AppendFinding(
        AppendError(res, repo.Location \o "/" \o repo.RepoID \o ": list docker images in "
                         \o repo.Name \o ": " \o ErrCause),
        Finding(FindingUnusedRepo, SeverityLow, ResourceRepository, repo.RepoID, "",
                repo.Location, 0, NoMetadata))

\* mutant: the ECR scanner's lifecycle-policy check is carried over, and the
\* registry, which has no such policy, answers "not found"
AR_scanRepository_lifecycleCheck(c, repo, listed, res) ==
    IF listed.err
    THEN AppendError(res, repo.Location \o "/" \o repo.RepoID \o ": list docker images in "
                          \o repo.Name \o ": " \o ErrCause)
    ELSE [ECR_checkLifecycle(repo.Location, repo.RepoID, HasLifecyclePolicy("notFound"), res)
            EXCEPT !.ResourcesScanned = @ + Len(listed.items),
                   !.Findings = @ \o AR_analyzeImages(c, repo, listed.items)]

\* ARScanner.scanRepository: `listed` is what client.ListDockerImages returned
AR_scanRepository(c, repo, listed, res) ==
    IF listed.err
    THEN AppendError(res, repo.Location \o "/" \o repo.RepoID \o ": list docker images in "
                          \o repo.Name \o ": " \o ErrCause)
    ELSE IF Len(listed.items) = 0
         THEN AppendFinding(res, Finding(FindingUnusedRepo, SeverityLow, ResourceRepository,
                                         repo.RepoID, "", repo.Location, 0, NoMetadata))
         ELSE LET findings == AR_analyzeImages(c, repo, listed.items)
                  staleCount == CountID(findings, FindingStaleImage)
                  res1 == [res EXCEPT !.ResourcesScanned = @ + Len(listed.items),
                                      !.Findings = @ \o findings]
              IN  IF staleCount = Len(listed.items) /\ Len(listed.items) > 0
                  THEN AppendFinding(res1, Finding(FindingUnusedRepo, SeverityLow,
                                                   ResourceRepository, repo.RepoID, "",
                                                   repo.Location,
                                                   AR_totalWaste(repo, listed.items),
                                                   [image_count |-> Len(listed.items)]))
                  ELSE res1

----------------------------------------------------------------------------
(* internal/artifactregistry/client.go *)

\* Client.ListRepositories: drain the iterator, fail on any error, keep the
\* Docker-format repositories only
AR_ListRepositories(entries, fails) ==
    IF fails
    THEN [err |-> TRUE, items |-> << >>]
    ELSE [err |-> FALSE, items |-> SelectSeq(entries, LAMBDA r : r.Format = "DOCKER")]

\* Client.ListDockerImages: drain the iterator, fail on any error
AR_ListDockerImages(entries, fails) ==
    IF fails
    THEN [err |-> TRUE, items |-> << >>]
    ELSE [err |-> FALSE, items |-> entries]

\* what the Artifact Registry iterator of a location may yield: its Docker
\* repositories, possibly preceded by a repository of another format
AR_RepoEntries(location, n) ==
    LET docker == [i \in 1..n |-> ARRepository(location, RepoOrder[i])]
    IN  { docker,
          <<[ARRepository(location, "m1") EXCEPT !.Format = "MAVEN"]>> \o docker }

----------------------------------------------------------------------------
(* internal/commands: the flag variables and their defaults; the output file *)

DefaultStaleDays == 90          \* --stale-days
DefaultMaxSizeMB == 1024        \* --max-size
DefaultMinMonthlyCost == 10     \* --min-monthly-cost 0.10, in cents
DefaultFormat == "text"         \* --format

\* the flag variables as cobra leaves them when no flag is passed: awsFlags for
\* the aws command (the ECR scanner), gcpFlags for the gcp command
FlagDefaults(p) ==
    IF p = "ecr"
    THEN [format |-> DefaultFormat, staleDays |-> DefaultStaleDays,
          maxSizeMB |-> DefaultMaxSizeMB, minMonthlyCost |-> DefaultMinMonthlyCost,
          outputFile |-> ""]
    ELSE [format |-> DefaultFormat, staleDays |-> DefaultStaleDays,
          maxSizeMB |-> DefaultMaxSizeMB, minMonthlyCost |-> DefaultMinMonthlyCost,
          outputFile |-> "", project |-> ""]

OutputPath == "report.out"      \* the path --output names
\* what a path holds: nothing ("absent"), a report written earlier ("old") or a
\* file of length zero ("empty")
NoFiles == [path \in {OutputPath} |-> "absent"]

----------------------------------------------------------------------------
(* reportProgress of both scanners *)

\* the callback is invoked with the event unless it is nil (Timestamp left out)
reportProgress(callback, received, region, scanner, msg) ==
    IF callback = "nil"
    THEN received
    ELSE Append(received, [Region |-> region, Scanner |-> scanner, Message |-> msg])

----------------------------------------------------------------------------
(* Scan: the state machine *)

ScanConfigs ==
    [StaleDays : {0, MaxStaleDays},
     MaxSizeBytes : {0, MaxSize - 1},
     MinMonthlyCost : {0},
     Exclude : [ResourceIDs : {{}, {RepoOrder[1]}}, Tags : {<< >>}]]

LocationLists == { <<"us">>, <<"us", "europe-west1">> }

NoImage == << >>
NoArg == << >>

\* the state at the entry of Scan, but for the scanner, its configuration and its context
ScanEntry ==
    /\ pc = "list"
    /\ locIdx = 1
    /\ repos = << >>
    /\ repoIdx = 1
    /\ result = EmptyScanResult
    /\ listings = << >>
    /\ scans = << >>
    /\ img = NoImage
    /\ out = << >>
    /\ atExpiry = EmptyScanResult
    /\ arg = NoArg
    /\ ret = NoArg
    /\ events = << >>
    /\ flags = FlagDefaults(provider)
    /\ files = NoFiles

\* a scan with the default --include-scan=false and no deadline (--timeout 0)
Init ==
    /\ provider \in Provider
    /\ cfg \in ScanConfigs
    /\ locations \in (IF provider = "ecr" THEN { <<ECRRegion>> } ELSE LocationLists)
    /\ includeScan = FALSE
    /\ deadline = "none"
    /\ progress = "nil"
    /\ ScanEntry

\* the provider failed one of the pages it was asked for
PagesFail(pages) == \E i \in 1..Len(pages) : pages[i].Err

\* the history record of one repository-listing call: what the provider did
\* (failed, pages served) and what the call appended to the result
Listing(location, failed, fetched, listed, before, after) ==
    [location |-> location, failed |-> failed, fetched |-> fetched, repos |-> listed.items,
     f0 |-> Len(before.Findings), f1 |-> Len(after.Findings),
     e0 |-> Len(before.Errors), e1 |-> Len(after.Errors)]

\* the history record of one scanRepository call: what the provider held for the
\* repository (whether its image listing failed, its images, its lifecycle-policy
\* state), how many progress events had been reported when its image listing was
\* attempted, and what the call appended: result.Findings[f0+1..f1],
\* result.Errors[e0+1..e1]
ScanRecord(location, repo, failed, images, lifecycle, before, after, reported) ==
    [listing |-> Len(listings), location |-> location, repo |-> repo, listFailed |-> failed,
     reported |-> Len(reported),
     images |-> IF failed THEN << >> ELSE images, lifecycle |-> lifecycle,
     f0 |-> Len(before.Findings), f1 |-> Len(after.Findings),
     e0 |-> Len(before.Errors), e1 |-> Len(after.Errors),
     r0 |-> before.ResourcesScanned, r1 |-> after.ResourcesScanned]

\* a provider call made on an expired context fails at once
CtxDone == deadline = "expired"

\* ECRScanner.Scan up to the range loop: list the repositories, abort on failure
ECR_listed(region, listed, res) ==
    IF listed.err
    THEN AppendError(res, region \o ": describe repositories: " \o ErrCause)
    ELSE [res EXCEPT !.RepositoriesScanned = Len(listed.items)]

ECR_Scan_List ==
    /\ pc = "list"
    /\ provider = "ecr"
    /\ \E n \in 0..Len(RepoOrder) : \E pages \in PageSeqs(SubSeq(RepoOrder, 1, n)) :
         LET listed == ListRepositories(pages)
             after == ECR_listed(locations[locIdx], listed, result)
         IN  /\ CtxDone => pages[1].Err
             /\ result' = after
             /\ repos' = listed.items
             /\ pc' = IF listed.err THEN "done" ELSE "repos"
             /\ listings' = Append(listings, Listing(locations[locIdx], PagesFail(pages),
                                                     Len(pages), listed, result, after))
             /\ events' = IF listed.err
                          THEN events
                          ELSE reportProgress(progress, events, locations[locIdx], "ecr",
                                              "Found " \o ToString(Len(listed.items))
                                              \o " repositories")
    /\ repoIdx' = 1
    /\ UNCHANGED <<provider, cfg, locations, locIdx, scans, img, out, includeScan, ctxVars,
                   fnVars, progress, cmdVars>>

\* the identifier the exclusion set is matched against
RepoKey(repo) == IF provider = "ecr" THEN repo ELSE repo.RepoID

\* mutant: an excluded repository ends the range loop (break for continue)
Scan_SkipExcluded_break ==
    /\ pc = "repos"
    /\ repoIdx <= Len(repos)
    /\ RepoKey(repos[repoIdx]) \in cfg.Exclude.ResourceIDs
    /\ repoIdx' = Len(repos) + 1
    /\ UNCHANGED <<provider, cfg, locations, pc, locIdx, repos, result, listings, scans,
                   img, out, includeScan, ctxVars, fnVars, progVars, cmdVars>>

\* the range loop of Scan: an excluded repository is skipped
Scan_SkipExcluded ==
    /\ pc = "repos"
    /\ repoIdx <= Len(repos)
    /\ RepoKey(repos[repoIdx]) \in cfg.Exclude.ResourceIDs
    /\ repoIdx' = repoIdx + 1
    /\ UNCHANGED <<provider, cfg, locations, pc, locIdx, repos, result, listings, scans,
                   img, out, includeScan, ctxVars, fnVars, progVars, cmdVars>>

\* the range loop of ECRScanner.Scan: scanRepository on the next repository
ECR_Scan_Repository ==
    /\ pc = "repos"
    /\ provider = "ecr"
    /\ repoIdx <= Len(repos)
    /\ repos[repoIdx] \notin cfg.Exclude.ResourceIDs
    /\ \E images \in ECR_ImageLists : \E pages \in PageSeqs(images) :
       \E lifecycle \in LifecycleReplies : \E expires \in BOOLEAN :
         LET reported == reportProgress(progress, events, locations[locIdx], "ecr",
                                        "Scanning " \o repos[repoIdx])
             listed == ListImages(pages)
             after == ECR_scanRepository(cfg, locations[locIdx], repos[repoIdx], listed,
                                         HasLifecyclePolicy(lifecycle), result)
         IN  /\ CtxDone => pages[1].Err /\ lifecycle = "error"
             \* the deadline may expire between ListImages and HasLifecyclePolicy
             /\ expires => /\ deadline = "armed"
                           /\ ~listed.err /\ Len(listed.items) > 0
                           /\ lifecycle = "error"
             /\ result' = after
             /\ scans' = Append(scans, ScanRecord(locations[locIdx], repos[repoIdx],
                                                  PagesFail(pages), images, lifecycle,
                                                  result, after, reported))
             /\ events' = reported
             /\ deadline' = IF expires THEN "expired" ELSE deadline
             /\ atExpiry' = IF expires THEN result ELSE atExpiry
    /\ repoIdx' = repoIdx + 1
    /\ UNCHANGED <<provider, cfg, locations, pc, locIdx, repos, listings, img, out,
                   includeScan, fnVars, progress, cmdVars>>

\* ECRScanner.Scan returns after the last repository
ECR_Scan_Return ==
    /\ pc = "repos"
    /\ provider = "ecr"
    /\ repoIdx > Len(repos)
    /\ pc' = "done"
    /\ UNCHANGED <<provider, cfg, locations, locIdx, repos, repoIdx, result, listings,
                   scans, img, out, includeScan, ctxVars, fnVars, progVars, cmdVars>>

\* mutant: a failed listing starts the result over with the error alone
AR_listed_resetOnError(location, listed, res) ==
    IF listed.err
    THEN AppendError(EmptyScanResult, location \o ": list repositories in projects/p/locations/"
                                      \o location \o ": " \o ErrCause)
    ELSE [res EXCEPT !.RepositoriesScanned = @ + Len(listed.items)]

\* ARScanner.Scan, per location: list the repositories, skip the location on failure
AR_listed(location, listed, res) ==
    IF listed.err
    THEN AppendError(res, location \o ": list repositories in projects/p/locations/"
                          \o location \o ": " \o ErrCause)
    ELSE [res EXCEPT !.RepositoriesScanned = @ + Len(listed.items)]

AR_Scan_List ==
    /\ pc = "list"
    /\ provider = "artifactregistry"
    /\ locIdx <= Len(locations)
    /\ \E n \in 0..(Len(RepoOrder) - result.RepositoriesScanned) :
       \E entries \in AR_RepoEntries(locations[locIdx], n) : \E fails \in BOOLEAN :
         LET started == reportProgress(progress, events, locations[locIdx],
                                       "artifactregistry",
                                       "Scanning location " \o locations[locIdx])
             listed == AR_ListRepositories(entries, fails)
             after == AR_listed(locations[locIdx], listed, result)
         IN  /\ CtxDone => fails
             /\ result' = after
             /\ repos' = listed.items
             /\ pc' = IF listed.err THEN "list" ELSE "repos"
             /\ locIdx' = IF listed.err THEN locIdx + 1 ELSE locIdx
             /\ listings' = Append(listings, Listing(locations[locIdx], fails, 1, listed,
                                                     result, after))
             /\ events' = IF listed.err
                          THEN started
                          ELSE reportProgress(progress, started, locations[locIdx],
                                              "artifactregistry",
                                              "Found " \o ToString(Len(listed.items))
                                              \o " Docker repositories")
    /\ repoIdx' = 1
    /\ UNCHANGED <<provider, cfg, locations, scans, img, out, includeScan, ctxVars, fnVars,
                   progress, cmdVars>>

\* the range loop of ARScanner.Scan: scanRepository on the next repository
AR_Scan_Repository ==
    /\ pc = "repos"
    /\ provider = "artifactregistry"
    /\ repoIdx <= Len(repos)
    /\ repos[repoIdx].RepoID \notin cfg.Exclude.ResourceIDs
    /\ \E images \in AR_ImageLists(repos[repoIdx]) : \E fails \in BOOLEAN :
         LET reported == reportProgress(progress, events, repos[repoIdx].Location,
                                        "artifactregistry",
                                        "Scanning " \o repos[repoIdx].RepoID)
             listed == AR_ListDockerImages(images, fails)
             after == AR_scanRepository(cfg, repos[repoIdx], listed, result)
         IN  /\ CtxDone => fails
             /\ result' = after
             /\ scans' = Append(scans, ScanRecord(locations[locIdx], repos[repoIdx],
                                                  fails, images, "none", result, after,
                                                  reported))
             /\ events' = reported
    /\ repoIdx' = repoIdx + 1
    /\ UNCHANGED <<provider, cfg, locations, pc, locIdx, repos, listings, img, out,
                   includeScan, ctxVars, fnVars, progress, cmdVars>>

\* ARScanner.Scan: after the last repository of a location, go to the next location
AR_Scan_NextLocation ==
    /\ pc = "repos"
    /\ provider = "artifactregistry"
    /\ repoIdx > Len(repos)
    /\ pc' = "list"
    /\ locIdx' = locIdx + 1
    /\ UNCHANGED <<provider, cfg, locations, repos, repoIdx, result, listings, scans,
                   img, out, includeScan, ctxVars, fnVars, progVars, cmdVars>>

\* ARScanner.Scan returns after the last location
AR_Scan_Return ==
    /\ pc = "list"
    /\ provider = "artifactregistry"
    /\ locIdx > Len(locations)
    /\ pc' = "done"
    /\ UNCHANGED <<provider, cfg, locations, locIdx, repos, repoIdx, result, listings,
                   scans, img, out, includeScan, ctxVars, fnVars, progVars, cmdVars>>

Next ==
    \/ ECR_Scan_List
    \/ Scan_SkipExcluded
    \/ ECR_Scan_Repository
    \/ ECR_Scan_Return
    \/ AR_Scan_List
    \/ AR_Scan_Repository
    \/ AR_Scan_NextLocation
    \/ AR_Scan_Return

Spec == Init /\ [][Next]_vars

----------------------------------------------------------------------------
(* The per-image classifier on its own: analyzeImage applied to one image *)

ClassifyTimes ==
    {NoTime} \cup { AddDays(Now, -d) + k : d \in 1..MaxStaleDays, k \in {-1, 0} }
ClassifyTags == { << >>, <<"v1">>, <<"v1", "latest">> }
ClassifyConfigs ==
    [StaleDays : -1..MaxStaleDays,
     MaxSizeBytes : -1..MaxSize,
     MinMonthlyCost : {0},
     Exclude : [ResourceIDs : {{}}, Tags : {<< >>}]]

ClassifyRepo == ARRepository("us", RepoOrder[1])

ECR_Images ==
    { ECRImage(DigestNames[1], t, sz, pushed, pulled, m) :
        t \in ClassifyTags, sz \in 0..MaxSize, pushed \in ClassifyTimes,
        pulled \in ClassifyTimes, m \in MediaTypes }

AR_Images ==
    { ARImage(ClassifyRepo.Name \o "/dockerImages/app@" \o DigestNames[1], uri, t, sz, up, m) :
        uri \in {"", "us-docker.pkg.dev/p/r1/app@" \o DigestNames[1]},
        t \in ClassifyTags, sz \in 0..MaxSize, up \in ClassifyTimes, m \in MediaTypes }

InitClassify ==
    /\ provider \in Provider
    /\ cfg \in ClassifyConfigs
    /\ img \in (IF provider = "ecr" THEN ECR_Images ELSE AR_Images)
    /\ locations = IF provider = "ecr" THEN <<ECRRegion>> ELSE <<ClassifyRepo.Location>>
    /\ pc = "classify"
    /\ locIdx = 1
    /\ repos = << >>
    /\ repoIdx = 1
    /\ result = EmptyScanResult
    /\ listings = << >>
    /\ scans = << >>
    /\ out = << >>
    /\ includeScan = FALSE
    /\ deadline = "none"
    /\ atExpiry = EmptyScanResult
    /\ arg = NoArg
    /\ ret = NoArg
    /\ progress = "nil"
    /\ events = << >>
    /\ flags = FlagDefaults(provider)
    /\ files = NoFiles

ECR_Classify ==
    /\ pc = "classify"
    /\ provider = "ecr"
    /\ out' = ECR_analyzeImage(cfg, locations[1], RepoOrder[1], img)
    /\ pc' = "classified"
    /\ UNCHANGED <<provider, cfg, locations, locIdx, repos, repoIdx, result, listings,
                   scans, img, includeScan, ctxVars, fnVars, progVars, cmdVars>>

AR_Classify ==
    /\ pc = "classify"
    /\ provider = "artifactregistry"
    /\ out' = AR_analyzeImage(cfg, ClassifyRepo, img)
    /\ pc' = "classified"
    /\ UNCHANGED <<provider, cfg, locations, locIdx, repos, repoIdx, result, listings,
                   scans, img, includeScan, ctxVars, fnVars, progVars, cmdVars>>

NextClassify == ECR_Classify \/ AR_Classify

SpecClassify == InitClassify /\ [][NextClassify]_vars

----------------------------------------------------------------------------
(* Claims about the per-image classifier (checked under SpecClassify) *)

\* the attributes of the classified image, whatever the provider
ImgTags == IF provider = "ecr" THEN img.ImageTags ELSE img.Tags
ImgSize == IF provider = "ecr" THEN img.ImageSizeInBytes ELSE img.SizeBytes
ImgMediaType == IF provider = "ecr" THEN img.ImageManifestMediaType ELSE img.MediaType
\* last activity: the last-pull time when present, otherwise the push/upload time
ImgLastActivity ==
    IF provider = "ecr"
    THEN IF img.LastRecordedPullTime # NoTime
         THEN img.LastRecordedPullTime
         ELSE img.ImagePushedAt
    ELSE img.UploadTime
\* the last activity is more than staleDays days (of 24 hours) before now
ImgIsOld ==
    /\ cfg.StaleDays > 0
    /\ ImgLastActivity # NoTime
    /\ Now - ImgLastActivity > cfg.StaleDays * 24

OutOf(id) == SelectSeq(out, LAMBDA f : f.ID = id)

\* C3: an image yields exactly one STALE_IMAGE finding (severity high) when
\* staleDays > 0 and its last activity (last pull if present, else push/upload)
\* is more than staleDays days before now, and none when staleDays = 0, when
\* the last activity is within or exactly at the threshold, or when it has no
\* timestamp at all.
C3_StaleRule ==
    pc = "classified" =>
        /\ Len(OutOf(FindingStaleImage)) = (IF ImgIsOld THEN 1 ELSE 0)
        /\ \A i \in 1..Len(out) :
             out[i].ID = FindingStaleImage => out[i].Severity = SeverityHigh

\* an ECR image pushed long ago but pulled at the threshold is classified and is
\* not stale
C3_Witness ==
    /\ pc = "classified"
    /\ provider = "ecr"
    /\ cfg.StaleDays = MaxStaleDays
    /\ img.ImagePushedAt = AddDays(Now, -MaxStaleDays) - 1
    /\ img.LastRecordedPullTime = AddDays(Now, -MaxStaleDays)
    /\ Len(OutOf(FindingStaleImage)) = 0

\* C4: an image without tags yields exactly one UNTAGGED_IMAGE finding
\* (severity high, resource type image) whatever its size, timestamps, media
\* type and the scan configuration; an image with a tag yields none.
C4_UntaggedRule ==
    pc = "classified" =>
        /\ Len(OutOf(FindingUntaggedImage)) = (IF Len(ImgTags) = 0 THEN 1 ELSE 0)
        /\ \A i \in 1..Len(out) :
             out[i].ID = FindingUntaggedImage =>
                 out[i].Severity = SeverityHigh /\ out[i].ResourceType = ResourceImage

\* an untagged image of size 0 without timestamps, classified with both
\* thresholds disabled, still has its UNTAGGED_IMAGE finding
C4_Witness ==
    /\ pc = "classified"
    /\ Len(ImgTags) = 0
    /\ ImgSize = 0
    /\ ImgLastActivity = NoTime
    /\ cfg.StaleDays = 0 /\ cfg.MaxSizeBytes = 0
    /\ Len(OutOf(FindingUntaggedImage)) = 1

\* C5: an image yields exactly one LARGE_IMAGE finding (severity medium) iff
\* maxSizeBytes > 0 and sizeBytes > maxSizeBytes; an image of exactly the
\* threshold size, or any image when maxSizeBytes = 0, yields none.
C5_LargeRule ==
    pc = "classified" =>
        /\ Len(OutOf(FindingLargeImage))
             = (IF cfg.MaxSizeBytes > 0 /\ ImgSize > cfg.MaxSizeBytes THEN 1 ELSE 0)
        /\ \A i \in 1..Len(out) :
             out[i].ID = FindingLargeImage => out[i].Severity = SeverityMedium

\* an image of exactly the threshold size is classified and is not large
C5_Witness ==
    /\ pc = "classified"
    /\ cfg.MaxSizeBytes > 0
    /\ ImgSize = cfg.MaxSizeBytes
    /\ Len(OutOf(FindingLargeImage)) = 0

\* C6: an image yields exactly one MULTI_ARCH_BLOAT finding (severity low) iff
\* its media type is that of a multi-platform manifest list or image index and
\* the image is flagged STALE_IMAGE; every MULTI_ARCH_BLOAT finding comes with a
\* STALE_IMAGE finding of the same resource ID.
C6_MultiArchRule ==
    pc = "classified" =>
        /\ Len(OutOf(FindingMultiArchBloat))
             = (IF IsMultiPlatform(ImgMediaType) /\ Len(OutOf(FindingStaleImage)) = 1
                THEN 1 ELSE 0)
        /\ \A i \in 1..Len(out) :
             out[i].ID = FindingMultiArchBloat =>
                 /\ out[i].Severity = SeverityLow
                 /\ \E j \in 1..Len(out) :
                      /\ out[j].ID = FindingStaleImage
                      /\ out[j].ResourceID = out[i].ResourceID

----------------------------------------------------------------------------
(* Claims about the scan orchestrators (checked under Spec) *)

\* elements a+1..b of seq
Slice(seq, a, b) == IF a <= b /\ b <= Len(seq) THEN SubSeq(seq, a + 1, b) ELSE << >>

\* what the k-th scanRepository call appended
ScanFindings(s) == Slice(result.Findings, s.f0, s.f1)
ScanErrors(s) == Slice(result.Errors, s.e0, s.e1)

\* the identifier of the scanned repository and of its i-th image
ScanRepoID(s) == IF provider = "ecr" THEN s.repo ELSE s.repo.RepoID
ScanImageID(s, i) ==
    IF provider = "ecr" THEN s.repo \o "@" \o s.images[i].ImageDigest ELSE s.images[i].URI
ScanImageSize(s, i) ==
    IF provider = "ecr" THEN s.images[i].ImageSizeInBytes ELSE s.images[i].SizeBytes

\* C1: scanning a non-excluded repository whose image listing succeeds with zero
\* images appends exactly one UNUSED_REPO finding (low, repository, waste 0) for
\* it, appends no image-scoped finding and leaves ResourcesScanned unchanged.
C1_EmptyRepo ==
    \A k \in 1..Len(scans) :
        LET s == scans[k]
            fs == ScanFindings(s)
        IN  (~s.listFailed /\ s.images = << >>) =>
                /\ CountID(fs, FindingUnusedRepo) = 1
                /\ \A i \in 1..Len(fs) :
                     /\ fs[i].ResourceType # ResourceImage
                     /\ fs[i].ID = FindingUnusedRepo =>
                          /\ fs[i].Severity = SeverityLow
                          /\ fs[i].ResourceType = ResourceRepository
                          /\ fs[i].ResourceID = ScanRepoID(s)
                          /\ fs[i].EstimatedMonthlyWaste = 0
                /\ s.r1 = s.r0

\* an empty repository has been scanned by each of the two scanners' code paths:
\* here by the ECR scanner, for a repository without lifecycle policy
C1_Witness ==
    \E k \in 1..Len(scans) :
        /\ provider = "ecr"
        /\ ~scans[k].listFailed
        /\ scans[k].images = << >>
        /\ scans[k].lifecycle = "notFound"
        /\ CountID(ScanFindings(scans[k]), FindingUnusedRepo) = 1

\* the image has a STALE_IMAGE finding among the findings of its repository's scan
ScanImageStale(s, i) ==
    \E j \in 1..Len(ScanFindings(s)) :
        /\ ScanFindings(s)[j].ID = FindingStaleImage
        /\ ScanFindings(s)[j].ResourceID = ScanImageID(s, i)

\* the sum of the individual monthly costs of the first n images of the scan
RECURSIVE ScanCostSum(_, _)
ScanCostSum(s, n) ==
    IF n = 0 THEN 0
    ELSE ScanCostSum(s, n - 1)
         + MonthlyStorageCost(provider, s.location, ScanImageSize(s, n))

\* C2: for a repository with N >= 1 images, if every image produced a
\* STALE_IMAGE finding the scan appends exactly one UNUSED_REPO finding
\* (repository-scoped, waste = sum of the N images' costs, image_count = N),
\* after all image findings of the repository; otherwise (also when
\* staleDays = 0) it appends no UNUSED_REPO finding.
C2_AllStaleRepo ==
    \A k \in 1..Len(scans) :
        LET s == scans[k]
            fs == ScanFindings(s)
            n == Len(s.images)
        IN  (~s.listFailed /\ n >= 1) =>
                IF \A i \in 1..n : ScanImageStale(s, i)
                THEN /\ CountID(fs, FindingUnusedRepo) = 1
                     /\ fs[Len(fs)].ID = FindingUnusedRepo
                     /\ fs[Len(fs)].ResourceType = ResourceRepository
                     /\ fs[Len(fs)].ResourceID = ScanRepoID(s)
                     /\ fs[Len(fs)].EstimatedMonthlyWaste = ScanCostSum(s, n)
                     /\ "image_count" \in DOMAIN fs[Len(fs)].Metadata
                     /\ fs[Len(fs)].Metadata.image_count = n
                ELSE CountID(fs, FindingUnusedRepo) = 0

\* a repository with two stale images of different sizes has been scanned
C2_Witness ==
    \E k \in 1..Len(scans) :
        /\ ~scans[k].listFailed
        /\ Len(scans[k].images) = 2
        /\ ScanImageSize(scans[k], 1) # ScanImageSize(scans[k], 2)
        /\ \A i \in 1..2 : ScanImageStale(scans[k], i)
        /\ CountID(ScanFindings(scans[k]), FindingUnusedRepo) = 1

\* C7: when the repository listing of a region/location fails (on any page), the
\* scan of that region/location is aborted: exactly one error string is
\* appended, no finding is produced and no image listing is attempted there;
\* the ECR scanner then returns zero findings and exactly one error string.
C7_ListingFailure ==
    /\ \A k \in 1..Len(listings) :
         listings[k].failed =>
             /\ listings[k].e1 = listings[k].e0 + 1
             /\ listings[k].f1 = listings[k].f0
             /\ \A j \in 1..Len(scans) : scans[j].listing # k
             /\ IF k < Len(listings)
                THEN /\ listings[k + 1].f0 = listings[k].f0
                     /\ listings[k + 1].e0 = listings[k].e1
                ELSE /\ Len(result.Findings) = listings[k].f0
                     /\ Len(result.Errors) = listings[k].e1
    /\ (provider = "ecr" /\ Len(listings) = 1 /\ listings[1].failed) =>
           /\ pc = "done"
           /\ Len(result.Findings) = 0
           /\ Len(result.Errors) = 1

\* the ECR repository listing failed on its second page and the scan returned
C7_Witness ==
    /\ provider = "ecr"
    /\ pc = "done"
    /\ Len(listings) = 1
    /\ listings[1].failed
    /\ listings[1].fetched = 2
    /\ Len(result.Errors) = 1

\* the error string scanRepository appends for a failed image listing
ScanListError(s) ==
    IF provider = "ecr"
    THEN s.location \o "/" \o s.repo \o ": describe images for " \o s.repo \o ": " \o ErrCause
    ELSE s.repo.Location \o "/" \o s.repo.RepoID \o ": list docker images in "
         \o s.repo.Name \o ": " \o ErrCause

\* the findings a scan of the repository alone, into an empty result, produces
ScanOwnFindings(s) ==
    IF provider = "ecr"
    THEN ECR_scanRepository(cfg, s.location, s.repo, [err |-> FALSE, items |-> s.images],
                            HasLifecyclePolicy(s.lifecycle), EmptyScanResult).Findings
    ELSE AR_scanRepository(cfg, s.repo, [err |-> FALSE, items |-> s.images],
                           EmptyScanResult).Findings

\* the repositories of a listing that the exclusion set lets through
ListedNotExcluded(l) ==
    SelectSeq(l.repos, LAMBDA r : RepoKey(r) \notin cfg.Exclude.ResourceIDs)

\* the repositories scanned under listing k, in scan order
ScannedUnder(k) ==
    LET under == SelectSeq(scans, LAMBDA s : s.listing = k)
    IN  [i \in 1..Len(under) |-> under[i].repo]

\* C8: when the image listing of a repository fails, exactly one error string
\* scoped to that repository is appended, no finding is produced for it and
\* ResourcesScanned is not incremented; the scan proceeds to the next
\* repository, and what every other repository contributes is what its own
\* scan produces, one contribution after the other.
C8_ImageListingFailure ==
    /\ \A k \in 1..Len(scans) :
         LET s == scans[k]
         IN  /\ s.f0 = (IF k = 1 THEN 0 ELSE scans[k - 1].f1)
             /\ s.f1 <= Len(result.Findings)
             /\ IF s.listFailed
                THEN /\ s.e1 = s.e0 + 1
                     /\ ScanErrors(s) = <<ScanListError(s)>>
                     /\ s.f1 = s.f0
                     /\ s.r1 = s.r0
                ELSE ScanFindings(s) = ScanOwnFindings(s)
    /\ (Len(scans) > 0 /\ pc = "done") => scans[Len(scans)].f1 = Len(result.Findings)
    /\ \A k \in 1..Len(listings) :
         (~listings[k].failed /\ (k < Len(listings) \/ pc = "done")) =>
             ScannedUnder(k) = ListedNotExcluded(listings[k])

\* the image listing of the first of two repositories failed, and the second
\* repository was scanned and produced findings
C8_Witness ==
    /\ pc = "done"
    /\ Len(scans) = 2
    /\ scans[1].listFailed
    /\ ~scans[2].listFailed
    /\ Len(ScanFindings(scans[2])) > 1

\* C9: in an ECR scan every listed, non-excluded repository gets the
\* lifecycle-policy check once: without a policy exactly one repository-scoped
\* NO_LIFECYCLE_POLICY finding (severity medium), with a policy none, also for
\* a repository with zero images or with a failed image listing.
C9_LifecyclePerRepository ==
    provider = "ecr" =>
        \A k \in 1..Len(scans) :
            LET s == scans[k]
                fs == ScanFindings(s)
            IN  /\ CountID(fs, FindingNoLifecyclePolicy)
                     = (IF s.lifecycle = "notFound" THEN 1 ELSE 0)
                /\ \A i \in 1..Len(fs) :
                     fs[i].ID = FindingNoLifecyclePolicy =>
                         /\ fs[i].Severity = SeverityMedium
                         /\ fs[i].ResourceType = ResourceRepository
                         /\ fs[i].ResourceID = s.repo

\* C10: a lifecycle-policy lookup failing with another error than "policy not
\* found" appends exactly one error string for the repository and no
\* NO_LIFECYCLE_POLICY finding (whereas "not found" appends the finding and no
\* error), and the repository's images are still counted and classified: the
\* findings are those of the image pass and the all-stale check.
C10_LifecycleLookupError ==
    provider = "ecr" =>
        \A k \in 1..Len(scans) :
            LET s == scans[k]
                fs == ScanFindings(s)
            IN  (~s.listFailed /\ Len(s.images) >= 1) =>
                    /\ s.lifecycle = "error" =>
                         /\ ScanErrors(s)
                              = << s.location \o "/" \o s.repo
                                   \o " lifecycle: get lifecycle policy for "
                                   \o s.repo \o ": " \o ErrCause >>
                         /\ s.e1 = s.e0 + 1
                         /\ CountID(fs, FindingNoLifecyclePolicy) = 0
                         /\ s.r1 = s.r0 + Len(s.images)
                         /\ fs = ECR_scanImages(cfg, s.location, s.repo, s.images,
                                                EmptyScanResult).Findings
                    /\ s.lifecycle = "notFound" =>
                         /\ s.e1 = s.e0
                         /\ CountID(fs, FindingNoLifecyclePolicy) = 1

\* the lifecycle lookup failed for a repository whose two images are all stale:
\* the images were classified and the UNUSED_REPO finding was appended
C10_Witness ==
    \E k \in 1..Len(scans) :
        /\ provider = "ecr"
        /\ ~scans[k].listFailed
        /\ Len(scans[k].images) = 2
        /\ scans[k].lifecycle = "error"
        /\ scans[k].e1 = scans[k].e0 + 1
        /\ CountID(ScanFindings(scans[k]), FindingStaleImage) = 2
        /\ CountID(ScanFindings(scans[k]), FindingUnusedRepo) = 1

----------------------------------------------------------------------------
(* Claims about what an Artifact Registry scan can report (checked under Spec) *)

HasFinding(findings, id) == \E i \in 1..Len(findings) : findings[i].ID = id

\* C11: whatever the inventory, the locations and the scan configuration, the
\* result of the Artifact Registry scanner holds no NO_LIFECYCLE_POLICY finding
\* and no VULNERABLE_IMAGE finding.
C11_NoLifecycleNoVulnerableOnGCP ==
    provider = "artifactregistry" =>
        /\ ~HasFinding(result.Findings, FindingNoLifecyclePolicy)
        /\ ~HasFinding(result.Findings, FindingVulnerableImage)

\* a finished Artifact Registry scan over two locations that scanned repositories
\* with images and reported image- and repository-scoped findings
C11_Witness ==
    /\ provider = "artifactregistry"
    /\ pc = "done"
    /\ Len(locations) = 2
    /\ \E k \in 1..Len(scans) : Len(scans[k].images) > 0
    /\ HasFinding(result.Findings, FindingUntaggedImage)
    /\ HasFinding(result.Findings, FindingUnusedRepo)

----------------------------------------------------------------------------
(* internal/ecr/scanner.go: ScanVulnerabilities *)

MaxScanFindings == 3    \* CVE entries in one image's scan findings

\* ecrtypes.FindingSeverity
FindingSeverities == {"INFORMATIONAL", "LOW", "MEDIUM", "HIGH", "CRITICAL", "UNDEFINED"}

\* what DescribeImageScanFindings may answer: an error, an output without
\* ImageScanFindings, or scan findings with the severity of each entry
ScanReply(kind, severities) == [Kind |-> kind, Severities |-> severities]
ScanReplies ==
    { ScanReply("error", << >>), ScanReply("nil", << >>) }
    \cup { ScanReply("findings", sev) :
             sev \in UNION { [1..n -> FindingSeverities] : n \in 0..MaxScanFindings } }

\* counts[sev] after the counting loop
CountSeverity(severities, sev) == Len(SelectSeq(severities, LAMBDA x : x = sev))

\* the severities that occur, each with its count: the map `counts`
SeverityCounts(severities) ==
    [sev \in { severities[i] : i \in 1..Len(severities) } |-> CountSeverity(severities, sev)]

\* mutant: only critical entries make an image vulnerable
IsVulnerable_criticalOnly(critCount, highCount) == critCount # 0

\* the negation of `critCount == 0 && highCount == 0`
IsVulnerable(critCount, highCount) == ~(critCount = 0 /\ highCount = 0)

\* ECRScanner.ScanVulnerabilities: ([]registry.Finding, error); the error is
\* always nil
ScanVulnerabilities(region, repoName, digest, reply) ==
    IF reply.Kind = "error"
    THEN [findings |-> << >>, err |-> FALSE]
    ELSE IF reply.Kind = "nil" \/ Len(reply.Severities) = 0
    THEN [findings |-> << >>, err |-> FALSE]
    ELSE LET critCount == CountSeverity(reply.Severities, "CRITICAL")
             highCount == CountSeverity(reply.Severities, "HIGH")
             total == Len(reply.Severities)
         IN  IF ~IsVulnerable(critCount, highCount)
             THEN [findings |-> << >>, err |-> FALSE]
             ELSE [findings |->
                      << Finding(FindingVulnerableImage, SeverityCritical, ResourceImage,
                                 repoName \o "@" \o digest, "", region, 0,
                                 [total_findings |-> total, critical_count |-> critCount,
                                  high_count |-> highCount,
                                  severity_counts |-> SeverityCounts(reply.Severities)]) >>,
                   err |-> FALSE]

\* the variables of Scan, which the functions studied on their own leave alone
scanVars ==
    <<provider, cfg, locations, locIdx, repos, repoIdx, result, listings, scans, img, out,
      includeScan, deadline, atExpiry, progress, events, flags, files>>

\* no scan is running
NoScan ==
    /\ provider = "ecr"
    /\ cfg = [StaleDays |-> 0, MaxSizeBytes |-> 0, MinMonthlyCost |-> 0,
              Exclude |-> [ResourceIDs |-> {}, Tags |-> << >>]]
    /\ locations = <<ECRRegion>>
    /\ locIdx = 1
    /\ repos = << >>
    /\ repoIdx = 1
    /\ result = EmptyScanResult
    /\ listings = << >>
    /\ scans = << >>
    /\ img = NoImage
    /\ out = << >>
    /\ includeScan = FALSE
    /\ deadline = "none"
    /\ atExpiry = EmptyScanResult
    /\ progress = "nil"
    /\ events = << >>
    /\ flags = FlagDefaults("ecr")
    /\ files = NoFiles

InitVulnerabilities ==
    /\ NoScan
    /\ pc = "vulnerabilities"
    /\ arg \in [repoName : {RepoOrder[1]}, digest : {DigestNames[1]}, reply : ScanReplies]
    /\ ret = NoArg

ECR_ScanVulnerabilities ==
    /\ pc = "vulnerabilities"
    /\ ret' = ScanVulnerabilities(locations[1], arg.repoName, arg.digest, arg.reply)
    /\ pc' = "returned"
    /\ UNCHANGED <<scanVars, arg>>

NextVulnerabilities == ECR_ScanVulnerabilities

SpecVulnerabilities == InitVulnerabilities /\ [][NextVulnerabilities]_vars

----------------------------------------------------------------------------
(* Claims about ScanVulnerabilities (checked under SpecVulnerabilities) *)

\* the image's scan findings include a CRITICAL or a HIGH entry
HasCriticalOrHigh(reply) ==
    /\ reply.Kind = "findings"
    /\ \E i \in 1..Len(reply.Severities) : reply.Severities[i] \in {"CRITICAL", "HIGH"}

\* C12: ScanVulnerabilities returns at most one finding; it returns exactly one
\* VULNERABLE_IMAGE finding (severity critical, the critical and high counts in
\* its metadata) if and only if the scan findings of the image include a CRITICAL
\* or HIGH entry, and none when the scan data is absent, empty or of lower
\* severities only.
C12_VulnerableImage ==
    pc = "returned" =>
        /\ Len(ret.findings) <= 1
        /\ Len(ret.findings) = 1 <=> HasCriticalOrHigh(arg.reply)
        /\ Len(ret.findings) = 1 =>
              LET f == ret.findings[1]
              IN  /\ f.ID = FindingVulnerableImage
                  /\ f.Severity = SeverityCritical
                  /\ f.ResourceType = ResourceImage
                  /\ f.ResourceID = arg.repoName \o "@" \o arg.digest
                  /\ f.Metadata.critical_count =
                        Cardinality({ i \in 1..Len(arg.reply.Severities) :
                                        arg.reply.Severities[i] = "CRITICAL" })
                  /\ f.Metadata.high_count =
                        Cardinality({ i \in 1..Len(arg.reply.Severities) :
                                        arg.reply.Severities[i] = "HIGH" })

\* a scan with high but no critical entries, next to a lower one, was reported
C12_Witness ==
    /\ pc = "returned"
    /\ arg.reply.Kind = "findings"
    /\ \E i, j \in 1..Len(arg.reply.Severities) :
          arg.reply.Severities[i] = "HIGH" /\ arg.reply.Severities[j] = "LOW"
    /\ \A i \in 1..Len(arg.reply.Severities) : arg.reply.Severities[i] # "CRITICAL"
    /\ Len(ret.findings) = 1

\* C13: a failed vulnerability lookup is surfaced as an error (here: the error
\* ScanVulnerabilities returns is non-nil), and its outcome differs from that of
\* an image without critical or high vulnerabilities.
C13_LookupFailureSurfaced ==
    (pc = "returned" /\ arg.reply.Kind = "error") =>
        /\ ret.err
        /\ ret # ScanVulnerabilities(locations[1], arg.repoName, arg.digest,
                                     ScanReply("findings", <<"LOW">>))

----------------------------------------------------------------------------
(* Scan under the options of the command line and of the configuration file:
   --include-scan and exclude.resource_ids *)

\* the scan findings the registry holds for an image (what DescribeImageScanFindings
\* would answer for it): critical for the first digest, low for the second,
\* none for the others
ImageScanFindings(repoName, digest) ==
    IF digest = DigestNames[1] THEN ScanReply("findings", <<"CRITICAL", "LOW">>)
    ELSE IF digest = DigestNames[2] THEN ScanReply("findings", <<"LOW">>)
    ELSE ScanReply("nil", << >>)

\* exclude.resource_ids of .ecrspectre.yaml: repository identifiers, or the
\* resource identifier a report shows for an image
ExcludeSets(p) ==
    { {RepoOrder[1]}, {RepoOrder[1], RepoOrder[2]},
      { IF p = "ecr"
        THEN RepoOrder[1] \o "@" \o DigestNames[1]
        ELSE "us-docker.pkg.dev/p/" \o RepoOrder[1] \o "/app@" \o DigestNames[1] } }

OptionConfigs(p) ==
    [StaleDays : {MaxStaleDays},
     MaxSizeBytes : {MaxSize - 1},
     MinMonthlyCost : {0},
     Exclude : [ResourceIDs : ExcludeSets(p), Tags : {<< >>}]]

InitOptions ==
    /\ provider \in Provider
    /\ cfg \in OptionConfigs(provider)
    /\ locations \in (IF provider = "ecr" THEN { <<ECRRegion>> } ELSE LocationLists)
    /\ includeScan \in (IF provider = "ecr" THEN BOOLEAN ELSE {FALSE})
    /\ deadline = "none"
    /\ progress = "nil"
    /\ ScanEntry

SpecOptions == InitOptions /\ [][Next]_vars

----------------------------------------------------------------------------
(* Claims about the scan options (checked under SpecOptions) *)

\* C14: an ECR scanner constructed with includeScan = true yields a
\* VULNERABLE_IMAGE finding for every scanned image whose registry scan data
\* holds a critical or high entry; with includeScan = false Scan yields no
\* VULNERABLE_IMAGE finding.
C14_IncludeScan ==
    (provider = "ecr" /\ pc = "done") =>
        /\ includeScan =>
              \A k \in 1..Len(scans) : \A i \in 1..Len(scans[k].images) :
                 HasCriticalOrHigh(ImageScanFindings(scans[k].repo,
                                                     scans[k].images[i].ImageDigest)) =>
                    \E n \in 1..Len(result.Findings) :
                       /\ result.Findings[n].ID = FindingVulnerableImage
                       /\ result.Findings[n].ResourceID =
                             scans[k].repo \o "@" \o scans[k].images[i].ImageDigest
        /\ ~includeScan => ~HasFinding(result.Findings, FindingVulnerableImage)

\* C15: for every identifier of cfg.Exclude.ResourceIDs the result holds no
\* finding with that ResourceID; a repository with that identifier is not handed
\* to scanRepository (no "Scanning <repo>" progress event, no image listing, no
\* lifecycle lookup), and every finding of the result, repository- or
\* image-scoped, stems from the scan of a repository that is not excluded.
C15_Exclusion ==
    /\ \A id \in cfg.Exclude.ResourceIDs :
          /\ \A n \in 1..Len(result.Findings) : result.Findings[n].ResourceID # id
          /\ \A k \in 1..Len(scans) : RepoKey(scans[k].repo) # id
    /\ \A n \in 1..Len(result.Findings) :
          \E k \in 1..Len(scans) :
             /\ scans[k].f0 < n /\ n <= scans[k].f1
             /\ RepoKey(scans[k].repo) \notin cfg.Exclude.ResourceIDs

----------------------------------------------------------------------------
(* internal/analyzer: Analyze.  Costs are in the unit of MonthlyStorageCost. *)

MaxFindings == 3        \* findings in the ScanResult handed to Analyze

\* mutant: the boundary is exclusive
Analyze_keeps_strict(f, c) == f.EstimatedMonthlyWaste > c.MinMonthlyCost

\* mutant: a finding without a cost estimate is never filtered out
Analyze_keeps_orFree(f, c) ==
    f.EstimatedMonthlyWaste = 0 \/ f.EstimatedMonthlyWaste >= c.MinMonthlyCost

\* f.EstimatedMonthlyWaste >= cfg.MinMonthlyCost
Analyze_keeps(f, c) == f.EstimatedMonthlyWaste >= c.MinMonthlyCost

\* summary.TotalMonthlyWaste after the loop over `filtered`
RECURSIVE TotalMonthlyWaste(_)
TotalMonthlyWaste(findings) ==
    IF findings = << >> THEN 0
    ELSE TotalMonthlyWaste(SubSeq(findings, 1, Len(findings) - 1))
         + findings[Len(findings)].EstimatedMonthlyWaste

\* a histogram map after the loop over `filtered`: the keys that occur, with counts
Histogram(findings, field) ==
    [key \in { findings[i][field] : i \in 1..Len(findings) } |->
        Len(SelectSeq(findings, LAMBDA f : f[field] = key))]

\* mutant: the total waste and the histograms are taken over all the findings
Summarize_unfiltered(res, filtered) ==
    [TotalResourcesScanned |-> res.ResourcesScanned,
     TotalFindings |-> Len(filtered),
     TotalMonthlyWaste |-> TotalMonthlyWaste(res.Findings),
     BySeverity |-> Histogram(res.Findings, "Severity"),
     ByResourceType |-> Histogram(res.Findings, "ResourceType"),
     RepositoriesScanned |-> res.RepositoriesScanned]

\* the analyzer.Summary Analyze builds
Summarize(res, filtered) ==
    [TotalResourcesScanned |-> res.ResourcesScanned,
     TotalFindings |-> Len(filtered),
     TotalMonthlyWaste |-> TotalMonthlyWaste(filtered),
     BySeverity |-> Histogram(filtered, "Severity"),
     ByResourceType |-> Histogram(filtered, "ResourceType"),
     RepositoriesScanned |-> res.RepositoriesScanned]

\* analyzer.Analyze
Analyze(res, c) ==
    LET filtered == SelectSeq(res.Findings, LAMBDA f : Analyze_keeps(f, c))
    IN  [Findings |-> filtered, Summary |-> Summarize(res, filtered), Errors |-> res.Errors]

\* the --min-monthly-cost tried besides 0: the cost of storing one byte
ThresholdCost == MonthlyStorageCost("ecr", ECRRegion, 1)

\* findings of every severity and resource type, with a waste of zero, just
\* below, exactly at and just above the threshold
AnalyzerFindings ==
    { Finding(FindingUnusedRepo, SeverityLow, ResourceRepository, "r1", "", ECRRegion,
              0, NoMetadata),
      Finding(FindingVulnerableImage, SeverityCritical, ResourceImage, "r1@sha256:a", "",
              ECRRegion, 0, NoMetadata),
      Finding(FindingUntaggedImage, SeverityHigh, ResourceImage, "r1@sha256:b", "",
              ECRRegion, ThresholdCost - 1, NoMetadata),
      Finding(FindingStaleImage, SeverityHigh, ResourceImage, "r1@sha256:c", "r1:tags",
              ECRRegion, ThresholdCost, NoMetadata),
      Finding(FindingLargeImage, SeverityMedium, ResourceImage, "r1@sha256:d", "r1:tags",
              ECRRegion, ThresholdCost + 1, NoMetadata) }

AnalyzerInputs ==
    [result : [Findings : UNION { [1..n -> AnalyzerFindings] : n \in 0..MaxFindings },
               Errors : { << >>, <<"us-east-1/r2: describe images for r2: boom">> },
               ResourcesScanned : {MaxFindings},
               RepositoriesScanned : {2}],
     cfg : [MinMonthlyCost : {0, ThresholdCost}]]

InitAnalyze ==
    /\ NoScan
    /\ pc = "analyze"
    /\ arg \in AnalyzerInputs
    /\ ret = NoArg

Analyzer_Analyze ==
    /\ pc = "analyze"
    /\ ret' = Analyze(arg.result, arg.cfg)
    /\ pc' = "returned"
    /\ UNCHANGED <<scanVars, arg>>

NextAnalyze == Analyzer_Analyze

SpecAnalyze == InitAnalyze /\ [][NextAnalyze]_vars

----------------------------------------------------------------------------
(* Claims about Analyze (checked under SpecAnalyze) *)

\* the positions of the scan's findings whose waste reaches the minimum cost
KeptPositions ==
    { i \in 1..Len(arg.result.Findings) :
        arg.result.Findings[i].EstimatedMonthlyWaste >= arg.cfg.MinMonthlyCost }

\* the j-th smallest of the kept positions
KeptPosition(j) ==
    CHOOSE i \in KeptPositions : Cardinality({ k \in KeptPositions : k <= i }) = j

RECURSIVE SumWasteAt(_)
SumWasteAt(positions) ==
    IF positions = {} THEN 0
    ELSE LET i == CHOOSE x \in positions : TRUE
         IN  arg.result.Findings[i].EstimatedMonthlyWaste + SumWasteAt(positions \ {i})

\* the count a histogram holds for a key (0 when the key is absent)
CountOf(hist, key) == IF key \in DOMAIN hist THEN hist[key] ELSE 0

RECURSIVE SumOf(_)
SumOf(hist) ==
    IF DOMAIN hist = {} THEN 0
    ELSE LET key == CHOOSE x \in DOMAIN hist : TRUE
         IN  hist[key] + SumOf([x \in DOMAIN hist \ {key} |-> hist[x]])

\* C16: Analyze retains exactly the findings whose waste is at least
\* minMonthlyCost (a finding exactly at the threshold is kept, one just below
\* is dropped), in their original order and unaltered; with minMonthlyCost = 0
\* every finding is retained, the zero-waste ones included.
C16_InclusiveFilter ==
    pc = "returned" =>
        /\ Len(ret.Findings) = Cardinality(KeptPositions)
        /\ \A j \in 1..Len(ret.Findings) :
              ret.Findings[j] = arg.result.Findings[KeptPosition(j)]
        /\ arg.cfg.MinMonthlyCost = 0 => ret.Findings = arg.result.Findings

\* a finding exactly at the threshold was kept, one just below it and a
\* zero-waste one were dropped
C16_Witness ==
    /\ pc = "returned"
    /\ arg.cfg.MinMonthlyCost = ThresholdCost
    /\ \E i, j, k \in 1..Len(arg.result.Findings) :
          /\ arg.result.Findings[i].EstimatedMonthlyWaste = ThresholdCost
          /\ arg.result.Findings[j].EstimatedMonthlyWaste = ThresholdCost - 1
          /\ arg.result.Findings[k].EstimatedMonthlyWaste = 0
    /\ Len(ret.Findings) = 1
    /\ ret.Findings[1].EstimatedMonthlyWaste = ThresholdCost

\* C17: the summary is computed over the retained findings only: TotalFindings
\* is their number, TotalMonthlyWaste the sum of their waste, BySeverity and
\* ByResourceType count exactly them (each histogram sums to TotalFindings);
\* the errors and the resources/repositories-scanned counters are carried over
\* unchanged.
C17_SummaryOverFiltered ==
    pc = "returned" =>
        /\ ret.Summary.TotalFindings = Cardinality(KeptPositions)
        /\ ret.Summary.TotalMonthlyWaste = SumWasteAt(KeptPositions)
        /\ \A sev \in {SeverityCritical, SeverityHigh, SeverityMedium, SeverityLow} :
              CountOf(ret.Summary.BySeverity, sev) =
                 Cardinality({ i \in KeptPositions : arg.result.Findings[i].Severity = sev })
        /\ \A rt \in {ResourceImage, ResourceRepository} :
              CountOf(ret.Summary.ByResourceType, rt) =
                 Cardinality({ i \in KeptPositions :
                                 arg.result.Findings[i].ResourceType = rt })
        /\ SumOf(ret.Summary.BySeverity) = ret.Summary.TotalFindings
        /\ SumOf(ret.Summary.ByResourceType) = ret.Summary.TotalFindings
        /\ ret.Errors = arg.result.Errors
        /\ ret.Summary.TotalResourcesScanned = arg.result.ResourcesScanned
        /\ ret.Summary.RepositoriesScanned = arg.result.RepositoriesScanned

\* two findings were retained and one dropped, and the scan carried an error
C17_Witness ==
    /\ pc = "returned"
    /\ Len(arg.result.Findings) = 3
    /\ Len(ret.Findings) = 2
    /\ ret.Findings[1].Severity # ret.Findings[2].Severity
    /\ ret.Summary.TotalMonthlyWaste = 2 * ThresholdCost + 1
    /\ Len(ret.Errors) = 1

----------------------------------------------------------------------------
(* internal/pricing on its own: MonthlyStorageCost applied to one input *)

PricingProviders == {"ecr", "artifactregistry", "gcr", ""}
PricingRegions ==
    DOMAIN StorageCosts["artifactregistry"] \cup {"us-east-1", "eu-west-1", "mars", ""}

InitPricing ==
    /\ NoScan
    /\ pc = "price"
    /\ arg \in [provider : PricingProviders, region : PricingRegions, sizeBytes : 0..MaxSize]
    /\ ret = NoArg

Pricing_MonthlyStorageCost ==
    /\ pc = "price"
    /\ ret' = MonthlyStorageCost(arg.provider, arg.region, arg.sizeBytes)
    /\ pc' = "returned"
    /\ UNCHANGED <<scanVars, arg>>

NextPricing == Pricing_MonthlyStorageCost

SpecPricing == InitPricing /\ [][NextPricing]_vars

----------------------------------------------------------------------------
(* Claims about the pricing (checked under SpecPricing) *)

\* the rate the (provider, region) pair resolves to: the exact entry, else the
\* provider's default, else the global default
ResolvedRate(p, region) ==
    IF \E q \in DOMAIN StorageCosts : q = p /\ region \in DOMAIN StorageCosts[q]
    THEN StorageCosts[p][region]
    ELSE IF p \in DOMAIN StorageCosts
         THEN StorageCosts[p]["default"]
         ELSE StorageCosts["ecr"]["default"]

\* C18: for every provider, region and sizeBytes >= 0, MonthlyStorageCost is
\* sizeBytes / 2^30 times the rate of the exact (provider, region) entry, else
\* of the provider's default entry, else the global default (unknown provider);
\* so it is 0 for 0 bytes, never negative and non-decreasing in sizeBytes.
C18_MonthlyStorageCost ==
    pc = "returned" =>
        /\ ret = arg.sizeBytes * ResolvedRate(arg.provider, arg.region)
        /\ arg.sizeBytes = 0 => ret = 0
        /\ ret >= 0
        /\ \A smaller \in 0..arg.sizeBytes :
              MonthlyStorageCost(arg.provider, arg.region, smaller) <= ret
        /\ ret <= MonthlyStorageCost(arg.provider, arg.region, arg.sizeBytes + 1)

\* a known provider with a region that has no entry was priced at the
\* provider's default rate
C18_Witness ==
    /\ pc = "returned"
    /\ arg.provider = "artifactregistry"
    /\ arg.region = "mars"
    /\ arg.sizeBytes = MaxSize
    /\ ret = MaxSize * StorageCosts["artifactregistry"]["default"]
    /\ ret > 0

----------------------------------------------------------------------------
(* internal/report: the report generators.  A rendered text is the sequence
   of its lines; numbers are printed with ToString, a cost in the unit of
   MonthlyStorageCost.  Data.Timestamp, Data.Target and Data.Config do not
   bear on what is studied and are left out of Data. *)

MaxReported == 2        \* findings in the report data

\* report.Data as runAWS / runGCP build it from the analysis
ReportData(analysis) ==
    [Tool |-> "ecrspectre", Version |-> "0.1.0", Findings |-> analysis.Findings,
     Summary |-> analysis.Summary, Errors |-> analysis.Errors]

\* strings.Join(parts, ", ")
RECURSIVE Join(_)
Join(parts) ==
    IF parts = << >> THEN ""
    ELSE IF Len(parts) = 1 THEN parts[1]
    ELSE parts[1] \o ", " \o Join(Tail(parts))

\* the keys a histogram may hold, in the order of sort.Strings
SortedKeys == <<"critical", "high", "image", "low", "medium", "repository">>

\* formatMapSorted: "key=count" for every key of the map, sorted by key
formatMapSorted(m) ==
    LET keys == SelectSeq(SortedKeys, LAMBDA k : k \in DOMAIN m)
    IN  [i \in 1..Len(keys) |-> keys[i] \o "=" \o ToString(m[keys[i]])]

\* the lines writeTextSummary prints
writeTextSummary(data) ==
    << "Summary",
       "-------",
       "Resources scanned:       " \o ToString(data.Summary.TotalResourcesScanned),
       "Repositories scanned:    " \o ToString(data.Summary.RepositoriesScanned),
       "Total findings:          " \o ToString(data.Summary.TotalFindings),
       "Estimated monthly waste: $" \o ToString(data.Summary.TotalMonthlyWaste) >>
    \o (IF DOMAIN data.Summary.BySeverity # {}
        THEN << "By severity:             "
                \o Join(formatMapSorted(data.Summary.BySeverity)) >>
        ELSE << >>)
    \o (IF DOMAIN data.Summary.ByResourceType # {}
        THEN << "By resource type:        "
                \o Join(formatMapSorted(data.Summary.ByResourceType)) >>
        ELSE << >>)
    \o (IF Len(data.Errors) > 0
        THEN << "", "Warnings (" \o ToString(Len(data.Errors)) \o "):" >>
             \o [i \in 1..Len(data.Errors) |-> "  - " \o data.Errors[i]]
        ELSE << >>)

\* one row of the findings table
TextRow(f) ==
    LET name == IF f.ResourceName # "" THEN f.ResourceName ELSE f.ResourceID
    IN  f.Severity \o "  " \o f.ResourceType \o "  " \o name \o "  " \o f.Region
        \o "  $" \o ToString(f.EstimatedMonthlyWaste) \o "  "

TextHeader ==
    << "ecrspectre - Container Registry Waste Report",
       "=============================================",
       "" >>

\* TextReporter.Generate on a writer that accepts every write
TextReporter_Generate(data) ==
    IF Len(data.Findings) = 0
    THEN [err |-> FALSE,
          lines |-> TextHeader \o << "No waste found in container registries.", "" >>
                    \o writeTextSummary(data)]
    ELSE [err |-> FALSE,
          lines |-> TextHeader
                    \o << "Found " \o ToString(data.Summary.TotalFindings)
                          \o " issues with estimated monthly waste of $"
                          \o ToString(data.Summary.TotalMonthlyWaste),
                          "",
                          "SEVERITY  TYPE  RESOURCE  REGION  WASTE/MO  MESSAGE",
                          "--------  ----  --------  ------  --------  -------" >>
                    \o [i \in 1..Len(data.Findings) |-> TextRow(data.Findings[i])]
                    \o << "" >>
                    \o writeTextSummary(data)]

sarifSchema ==
    "https://raw.githubusercontent.com/oasis-tcs/sarif-spec/main/sarif-2.1/schema/sarif-schema-2.1.0.json"

sarifLevel(sev) ==
    IF sev = SeverityCritical THEN "error"
    ELSE IF sev = SeverityHigh THEN "error"
    ELSE IF sev = SeverityMedium THEN "warning"
    ELSE "note"

sarifRule(id, text, level) == [ID |-> id, ShortDescription |-> text, DefaultConfig |-> level]

buildSARIFRules ==
    << sarifRule(FindingUntaggedImage, "Untagged container image", "error"),
       sarifRule(FindingStaleImage, "Stale container image", "error"),
       sarifRule(FindingLargeImage, "Oversized container image", "warning"),
       sarifRule(FindingNoLifecyclePolicy, "No lifecycle policy on repository", "warning"),
       sarifRule(FindingVulnerableImage, "Vulnerable container image", "error"),
       sarifRule(FindingUnusedRepo, "Unused container repository", "note"),
       sarifRule(FindingMultiArchBloat, "Multi-architecture bloat", "note") >>

sarifResult(f) ==
    [RuleID |-> f.ID, Level |-> sarifLevel(f.Severity), Message |-> "",
     URI |-> "registry://" \o f.Region \o "/" \o f.ResourceType \o "/" \o f.ResourceID,
     Props |-> [resourceName |-> f.ResourceName,
                estimatedMonthlyWaste |-> f.EstimatedMonthlyWaste,
                metadata |-> f.Metadata]]

\* SARIFReporter.Generate: the sarifReport that is encoded; data.Errors and
\* data.Summary are not read
SARIFReporter_Generate(data) ==
    [err |-> FALSE,
     report |-> [Schema |-> sarifSchema, Version |-> "2.1.0",
                 Runs |-> << [Tool |-> [Name |-> data.Tool, Version |-> data.Version,
                                        Rules |-> buildSARIFRules],
                              Results |-> [i \in 1..Len(data.Findings) |->
                                             sarifResult(data.Findings[i])]] >>]]

\* JSONReporter.Generate and SpectreHubReporter.Generate: the spectre/v1
\* envelope embedding the Data structure
EnvelopeReporter_Generate(schemaKey, data) ==
    [err |-> FALSE,
     envelope |-> [schemaKey |-> schemaKey, schema |-> "spectre/v1", tool |-> data.Tool,
                   version |-> data.Version, findings |-> data.Findings,
                   summary |-> data.Summary, errors |-> data.Errors]]

JSONReporter_Generate(data) == EnvelopeReporter_Generate("$schema", data)

SpectreHubReporter_Generate(data) == EnvelopeReporter_Generate("schema", data)

ReportFormats == {"text", "json", "sarif", "spectrehub"}

ReportErrors ==
    { << >>,
      <<"us-east-1: describe repositories: boom">>,
      <<"us-east-1/r1: describe images for r1: boom",
        "us-east-1/r2 lifecycle: get lifecycle policy for r2: boom">> }

\* the report data of runAWS for an analysis that kept every finding
ReportInputs ==
    { ReportData(Analyze([Findings |-> fs, Errors |-> es, ResourcesScanned |-> Len(fs),
                          RepositoriesScanned |-> 2],
                         [MinMonthlyCost |-> 0])) :
        fs \in UNION { [1..n -> AnalyzerFindings] : n \in 0..MaxReported },
        es \in ReportErrors }

InitReport ==
    /\ NoScan
    /\ pc = "report"
    /\ arg \in [format : ReportFormats, data : ReportInputs]
    /\ ret = NoArg

Report_Text ==
    /\ pc = "report"
    /\ arg.format = "text"
    /\ ret' = TextReporter_Generate(arg.data)
    /\ pc' = "returned"
    /\ UNCHANGED <<scanVars, arg>>

Report_JSON ==
    /\ pc = "report"
    /\ arg.format = "json"
    /\ ret' = JSONReporter_Generate(arg.data)
    /\ pc' = "returned"
    /\ UNCHANGED <<scanVars, arg>>

Report_SARIF ==
    /\ pc = "report"
    /\ arg.format = "sarif"
    /\ ret' = SARIFReporter_Generate(arg.data)
    /\ pc' = "returned"
    /\ UNCHANGED <<scanVars, arg>>

Report_SpectreHub ==
    /\ pc = "report"
    /\ arg.format = "spectrehub"
    /\ ret' = SpectreHubReporter_Generate(arg.data)
    /\ pc' = "returned"
    /\ UNCHANGED <<scanVars, arg>>

NextReport == Report_Text \/ Report_JSON \/ Report_SARIF \/ Report_SpectreHub

SpecReport == InitReport /\ [][NextReport]_vars

----------------------------------------------------------------------------
(* Claims about the report generators (checked under SpecReport) *)

\* every string of a SARIF report
SARIFStrings(report) ==
    {report.Schema, report.Version}
    \cup UNION { {run.Tool.Name, run.Tool.Version}
                 \cup UNION { {r.ID, r.ShortDescription, r.DefaultConfig} :
                              r \in { run.Tool.Rules[i] : i \in 1..Len(run.Tool.Rules) } }
                 \cup UNION { {r.RuleID, r.Level, r.Message, r.URI, r.Props.resourceName} :
                              r \in { run.Results[i] : i \in 1..Len(run.Results) } } :
                 run \in { report.Runs[i] : i \in 1..Len(report.Runs) } }

\* the rendered output shows the error string
ShowsError(format, output, e) ==
    IF format = "text"
    THEN \E i \in 1..Len(output.lines) : output.lines[i] = "  - " \o e
    ELSE IF format = "sarif"
    THEN e \in SARIFStrings(output.report)
    ELSE \E i \in 1..Len(output.envelope.errors) : output.envelope.errors[i] = e

\* C19: for each of the text, JSON, SARIF and SpectreHub renderers, when the
\* report data carries errors, rendering succeeds and the output shows every
\* error string, with and without findings.
C19_ErrorsInEveryFormat ==
    (pc = "returned" /\ Len(arg.data.Errors) > 0) =>
        /\ ~ret.err
        /\ \A i \in 1..Len(arg.data.Errors) : ShowsError(arg.format, ret, arg.data.Errors[i])

----------------------------------------------------------------------------
(* Scan under a deadline: runAWS / runGCP hand Scan a context.WithTimeout
   context, which may expire between two provider calls (or, in the ECR
   scanRepository, between ListImages and HasLifecyclePolicy) *)

DeadlineConfigs ==
    [StaleDays : {MaxStaleDays},
     MaxSizeBytes : {MaxSize - 1},
     MinMonthlyCost : {0},
     Exclude : [ResourceIDs : {{}, {RepoOrder[2]}}, Tags : {<< >>}]]

InitDeadline ==
    /\ provider \in Provider
    /\ cfg \in DeadlineConfigs
    /\ locations \in (IF provider = "ecr" THEN { <<ECRRegion>> } ELSE LocationLists)
    /\ includeScan = FALSE
    /\ deadline = "armed"
    /\ progress = "nil"
    /\ ScanEntry

\* the timeout elapses while the scan is between two provider calls
Deadline_Expire ==
    /\ deadline = "armed"
    /\ pc \in {"list", "repos"}
    /\ deadline' = "expired"
    /\ atExpiry' = result
    /\ UNCHANGED <<provider, cfg, locations, pc, locIdx, repos, repoIdx, result, listings,
                   scans, img, out, includeScan, fnVars, progVars, cmdVars>>

NextDeadline ==
    \/ ECR_Scan_List
    \/ Scan_SkipExcluded
    \/ ECR_Scan_Repository
    \/ ECR_Scan_Return
    \/ AR_Scan_List
    \/ AR_Scan_Repository
    \/ AR_Scan_NextLocation
    \/ AR_Scan_Return
    \/ Deadline_Expire

SpecDeadline == InitDeadline /\ [][NextDeadline]_vars

----------------------------------------------------------------------------
(* Claims about the deadline (checked under SpecDeadline) *)

IsPrefix(a, b) == Len(a) <= Len(b) /\ \A i \in 1..Len(a) : a[i] = b[i]

\* r holds, unaltered, everything q holds
Extends(r, q) ==
    /\ IsPrefix(q.Findings, r.Findings)
    /\ IsPrefix(q.Errors, r.Errors)
    /\ r.ResourcesScanned >= q.ResourcesScanned
    /\ r.RepositoriesScanned >= q.RepositoriesScanned

\* how far Scan has come: grows with every step of Scan, and is bounded
ScanProgressMeasure ==
    locIdx * (Len(RepoOrder) + 3)
    + (IF pc = "list" THEN 0 ELSE IF pc = "repos" THEN repoIdx ELSE Len(RepoOrder) + 2)

\* C20: when the deadline expires during a scan, the scan still terminates
\* (it is never stuck before its return, and each of its steps brings it closer
\* to it) and the result it returns holds, unaltered, every finding, error and
\* counter increment accumulated before the expiry; a step that starts after
\* the expiry, whose provider calls all fail, adds error strings only, never a
\* finding or a counter increment.
C20_PartialResultsOnExpiry ==
    /\ [](pc = "done" \/ ENABLED NextDeadline)
    /\ [](deadline = "expired" => Extends(result, atExpiry))
    /\ [][ /\ Extends(result', result)
           /\ ScanProgressMeasure' > ScanProgressMeasure
                 \/ (ScanProgressMeasure' = ScanProgressMeasure /\ deadline' # deadline)
           /\ ScanProgressMeasure' <= (Len(locations) + 2) * (Len(RepoOrder) + 3)
           /\ deadline = "expired" =>
                 /\ result'.Findings = result.Findings
                 /\ result'.ResourcesScanned = result.ResourcesScanned
                 /\ result'.RepositoriesScanned = result.RepositoriesScanned
                 /\ Len(result'.Errors) <= Len(result.Errors) + 1 ]_vars

\* the deadline expired after findings had been accumulated over two
\* locations; the later calls failed, and the scan returned with them
C20_Witness ==
    /\ pc = "done"
    /\ deadline = "expired"
    /\ Len(atExpiry.Findings) > 1
    /\ atExpiry.ResourcesScanned > 0
    /\ result.Findings = atExpiry.Findings
    /\ Len(result.Errors) > Len(atExpiry.Errors)
    /\ Len(locations) = 2

----------------------------------------------------------------------------
(* Scan with a size threshold of zero, under which an image may produce no
   finding at all, and with either repository excluded *)

CounterConfigs ==
    [StaleDays : {MaxStaleDays},
     MaxSizeBytes : {0},
     MinMonthlyCost : {0},
     Exclude : [ResourceIDs : {{}, {RepoOrder[1]}, {RepoOrder[2]}}, Tags : {<< >>}]]

InitCounters ==
    /\ provider \in Provider
    /\ cfg \in CounterConfigs
    /\ locations \in (IF provider = "ecr" THEN { <<ECRRegion>> } ELSE LocationLists)
    /\ includeScan = FALSE
    /\ deadline = "none"
    /\ progress = "nil"
    /\ ScanEntry

SpecCounters == InitCounters /\ [][Next]_vars

----------------------------------------------------------------------------
(* Claims about the counters of the result (checked under SpecCounters) *)

\* the images the successful image listings of the first n scanRepository calls returned
RECURSIVE ImagesListed(_)
ImagesListed(n) ==
    IF n = 0 THEN 0
    ELSE ImagesListed(n - 1) + (IF scans[n].listFailed THEN 0 ELSE Len(scans[n].images))

\* the i-th image of the scan has no finding among the findings of its repository
ScanImageSilent(s, i) ==
    \A j \in 1..Len(ScanFindings(s)) : ScanFindings(s)[j].ResourceID # ScanImageID(s, i)

\* C21: ResourcesScanned is the number of images the successful image listings
\* of the non-excluded repositories returned, each image counted once whether or
\* not it produced a finding; a repository whose image listing failed adds
\* nothing, and no image of an excluded repository is listed or counted.
C21_ResourcesScanned ==
    /\ result.ResourcesScanned = ImagesListed(Len(scans))
    /\ \A k \in 1..Len(scans) :
         /\ RepoKey(scans[k].repo) \notin cfg.Exclude.ResourceIDs
         /\ scans[k].r0 = (IF k = 1 THEN 0 ELSE scans[k - 1].r1)
         /\ scans[k].r1 = scans[k].r0
                          + (IF scans[k].listFailed THEN 0 ELSE Len(scans[k].images))

\* a finished scan in which the image listing of one repository failed and the
\* other repository held two images, one of which produced no finding
C21_Witness ==
    /\ pc = "done"
    /\ Len(scans) = 2
    /\ scans[1].listFailed
    /\ ~scans[2].listFailed
    /\ Len(scans[2].images) = 2
    /\ \E i \in 1..2 : ScanImageSilent(scans[2], i)
    /\ result.ResourcesScanned = 2


\* the repositories the successful repository listings returned and the exclusion
\* set lets through, over the first n listings
RECURSIVE ListedAndNotExcluded(_)
ListedAndNotExcluded(n) ==
    IF n = 0 THEN 0
    ELSE ListedAndNotExcluded(n - 1)
         + (IF listings[n].failed THEN 0 ELSE Len(ListedNotExcluded(listings[n])))

\* C22: after a scan RepositoriesScanned is the number of repositories that were
\* scanned, that is listed (over all locations) and not in the exclusion set; a
\* repository skipped by the exclusion set is not counted.
C22_RepositoriesScanned ==
    pc = "done" =>
        /\ result.RepositoriesScanned = ListedAndNotExcluded(Len(listings))
        /\ result.RepositoriesScanned = Len(scans)

----------------------------------------------------------------------------
(* Claims about the waste of the per-image findings (checked under SpecClassify) *)

ImageFindingIDs ==
    {FindingUntaggedImage, FindingStaleImage, FindingLargeImage, FindingMultiArchBloat}

\* the Pricing Oracle cost of the classified image's full size at its region
ImgCost == ImgSize * ResolvedRate(provider, locations[1])

\* C23: every finding of the per-image pass (UNTAGGED_IMAGE, STALE_IMAGE,
\* LARGE_IMAGE, MULTI_ARCH_BLOAT) carries as estimated monthly waste the
\* Pricing Oracle cost of the image's full size: the findings of one image all
\* carry the same waste, and the waste is not deduplicated, the k findings of
\* an image summing to k times its cost.
C23_WastePerFinding ==
    pc = "classified" =>
        /\ \A i \in 1..Len(out) :
             /\ out[i].ID \in ImageFindingIDs
             /\ out[i].ResourceType = ResourceImage
             /\ out[i].EstimatedMonthlyWaste = ImgCost
        /\ \A i, j \in 1..Len(out) :
             out[i].EstimatedMonthlyWaste = out[j].EstimatedMonthlyWaste
        /\ TotalMonthlyWaste(out) = Len(out) * ImgCost

\* an untagged, stale, large multi-architecture image of positive size got four
\* findings, whose waste sums to four times the cost of the image
C23_Witness ==
    /\ pc = "classified"
    /\ ImgSize > 0
    /\ Len(out) = 4
    /\ Cardinality({ out[i].ID : i \in 1..Len(out) }) = 4
    /\ TotalMonthlyWaste(out) = 4 * ImgCost
    /\ ImgCost > 0

----------------------------------------------------------------------------
(* internal/commands: applyAWSConfigDefaults / applyGCPConfigDefaults.
   --min-monthly-cost and min_monthly_cost are in cents. *)

MaxRuns == 2            \* applications of a configuration file in one process

\* config.Config, the fields the commands copy into the flag variables
Config(format, staleDays, maxSizeMB, minMonthlyCost, project) ==
    [Format |-> format, StaleDays |-> staleDays, MaxSizeMB |-> maxSizeMB,
     MinMonthlyCost |-> minMonthlyCost, Project |-> project]

\* mutant: a value of the configuration file replaces the flag whatever it holds
applyAWSConfigDefaults_configWins(fl, c) ==
    [fl EXCEPT !.format = IF c.Format # "" THEN c.Format ELSE @,
               !.staleDays = IF c.StaleDays > 0 THEN c.StaleDays ELSE @,
               !.maxSizeMB = IF c.MaxSizeMB > 0 THEN c.MaxSizeMB ELSE @,
               !.minMonthlyCost = IF c.MinMonthlyCost > 0 THEN c.MinMonthlyCost ELSE @]

applyAWSConfigDefaults(fl, c) ==
    [fl EXCEPT !.format = IF @ = "text" /\ c.Format # "" THEN c.Format ELSE @,
               !.staleDays = IF @ = 90 /\ c.StaleDays > 0 THEN c.StaleDays ELSE @,
               !.maxSizeMB = IF @ = 1024 /\ c.MaxSizeMB > 0 THEN c.MaxSizeMB ELSE @,
               !.minMonthlyCost = IF @ = 10 /\ c.MinMonthlyCost > 0
                                  THEN c.MinMonthlyCost ELSE @]

applyGCPConfigDefaults(fl, c) ==
    [fl EXCEPT !.format = IF @ = "text" /\ c.Format # "" THEN c.Format ELSE @,
               !.staleDays = IF @ = 90 /\ c.StaleDays > 0 THEN c.StaleDays ELSE @,
               !.maxSizeMB = IF @ = 1024 /\ c.MaxSizeMB > 0 THEN c.MaxSizeMB ELSE @,
               !.minMonthlyCost = IF @ = 10 /\ c.MinMonthlyCost > 0
                                  THEN c.MinMonthlyCost ELSE @,
               !.project = IF @ = "" /\ c.Project # "" THEN c.Project ELSE @]

applyConfigDefaults(p, fl, c) ==
    IF p = "ecr" THEN applyAWSConfigDefaults(fl, c) ELSE applyGCPConfigDefaults(fl, c)

\* the variables of Scan that the commands' handling of flags leaves alone
idleVars ==
    <<locIdx, repos, repoIdx, result, listings, scans, img, out, includeScan, deadline,
      atExpiry, progress, events>>

\* no scan has been started
ScanIdle ==
    /\ locIdx = 1
    /\ repos = << >>
    /\ repoIdx = 1
    /\ result = EmptyScanResult
    /\ listings = << >>
    /\ scans = << >>
    /\ img = NoImage
    /\ out = << >>
    /\ includeScan = FALSE
    /\ deadline = "none"
    /\ atExpiry = EmptyScanResult
    /\ progress = "nil"
    /\ events = << >>

\* the zero value of registry.ScanConfig
NoScanConfig ==
    [StaleDays |-> 0, MaxSizeBytes |-> 0, MinMonthlyCost |-> 0,
     Exclude |-> [ResourceIDs |-> {}, Tags |-> << >>]]

\* what the flag variables hold once cobra has parsed the command line: the
\* default, or the value passed
ParsedFlags(p) ==
    { [f EXCEPT !.format = format, !.staleDays = staleDays, !.maxSizeMB = maxSizeMB,
                !.minMonthlyCost = minMonthlyCost] :
        f \in (IF p = "ecr"
               THEN {FlagDefaults(p)}
               ELSE {FlagDefaults(p), [FlagDefaults(p) EXCEPT !.project = "p"]}),
        format \in {DefaultFormat, "sarif"},
        staleDays \in {DefaultStaleDays, 30},
        maxSizeMB \in {DefaultMaxSizeMB, 512},
        minMonthlyCost \in {DefaultMinMonthlyCost, 500} }

\* the configuration files tried: every setting absent (zero value) or present
ConfigFiles(p) ==
    { Config(format, staleDays, maxSizeMB, minMonthlyCost, project) :
        format \in {"", "json"}, staleDays \in {0, 60, 180}, maxSizeMB \in {0, 256},
        minMonthlyCost \in {0, 100},
        project \in (IF p = "ecr" THEN {""} ELSE {"", "cp"}) }

\* arg: the flags as parsed, the number of configuration files applied so far
\* and the last one applied
InitDefaults ==
    /\ provider \in Provider
    /\ cfg = NoScanConfig
    /\ locations = <<ECRRegion>>
    /\ ScanIdle
    /\ pc = "apply"
    /\ flags \in ParsedFlags(provider)
    /\ files = NoFiles
    /\ arg = [parsed |-> flags, runs |-> 0, config |-> Config("", 0, 0, 0, "")]
    /\ ret = NoArg

\* one invocation in the process: the configuration file is loaded and applied
\* to the flag variables
Apply_ConfigDefaults ==
    /\ pc = "apply"
    /\ arg.runs < MaxRuns
    /\ \E c \in ConfigFiles(provider) :
         /\ flags' = applyConfigDefaults(provider, flags, c)
         /\ arg' = [arg EXCEPT !.runs = @ + 1, !.config = c]
    /\ UNCHANGED <<provider, cfg, locations, pc, idleVars, ret, files>>

NextDefaults == Apply_ConfigDefaults

SpecDefaults == InitDefaults /\ [][NextDefaults]_vars

----------------------------------------------------------------------------
(* Claims about the configuration defaults (checked under SpecDefaults) *)

\* the settings a configuration file can set, by the name of the flag variable
Settings(p) ==
    IF p = "ecr"
    THEN {"format", "staleDays", "maxSizeMB", "minMonthlyCost"}
    ELSE {"format", "staleDays", "maxSizeMB", "minMonthlyCost", "project"}

\* the value the configuration file gives a setting, and whether it sets it
ConfigValue(c, setting) ==
    CASE setting = "format" -> c.Format
      [] setting = "staleDays" -> c.StaleDays
      [] setting = "maxSizeMB" -> c.MaxSizeMB
      [] setting = "minMonthlyCost" -> c.MinMonthlyCost
      [] setting = "project" -> c.Project

ConfigSets(c, setting) ==
    IF setting \in {"format", "project"}
    THEN ConfigValue(c, setting) # ""
    ELSE ConfigValue(c, setting) > 0

\* C24: applying the configuration file leaves a flag that holds a non-default
\* value unchanged (the CLI flag wins), replaces a flag that holds its default
\* by the value of the configuration file when the file sets one (non-empty
\* format / project, a value > 0 otherwise), and leaves it at its default when
\* the file sets none; this for format, stale-days, max-size, min-monthly-cost
\* and, for gcp, project.
C24_ConfigDefaults ==
    [][ \A setting \in Settings(provider) :
          flags'[setting] =
              IF flags[setting] # FlagDefaults(provider)[setting]
              THEN flags[setting]
              ELSE IF ConfigSets(arg'.config, setting)
                   THEN ConfigValue(arg'.config, setting)
                   ELSE FlagDefaults(provider)[setting] ]_vars

\* a configuration file that sets every setting was applied to gcp flags of
\* which --format and --max-size had been passed: these two kept their values,
\* the others took the file's
C24_Witness ==
    /\ provider = "artifactregistry"
    /\ arg.runs = 1
    /\ arg.parsed.format = "sarif" /\ arg.config.Format = "json" /\ flags.format = "sarif"
    /\ arg.parsed.maxSizeMB = 512 /\ arg.config.MaxSizeMB = 256 /\ flags.maxSizeMB = 512
    /\ arg.parsed.staleDays = DefaultStaleDays /\ flags.staleDays = 180
    /\ arg.parsed.minMonthlyCost = DefaultMinMonthlyCost /\ flags.minMonthlyCost = 100
    /\ arg.parsed.project = "" /\ flags.project = "cp"

----------------------------------------------------------------------------
(* Scan with and without a progress callback *)

ProgressConfigs ==
    [StaleDays : {MaxStaleDays},
     MaxSizeBytes : {MaxSize - 1},
     MinMonthlyCost : {0},
     Exclude : [ResourceIDs : {{}, {RepoOrder[1]}}, Tags : {<< >>}]]

\* runAWS / runGCP hand Scan a callback unless --no-progress is passed
InitProgress ==
    /\ provider \in Provider
    /\ cfg \in ProgressConfigs
    /\ locations \in (IF provider = "ecr" THEN { <<ECRRegion>> } ELSE LocationLists)
    /\ includeScan = FALSE
    /\ deadline = "none"
    /\ progress \in {"nil", "callback"}
    /\ ScanEntry

SpecProgress == InitProgress /\ [][Next]_vars

----------------------------------------------------------------------------
(* Claims about the enumeration of the repositories (checked under SpecProgress) *)

\* the "Scanning <repo>" events among the events received, in order
ScanningEvents ==
    SelectSeq(events, LAMBDA e :
        \E i \in 1..Len(RepoOrder) : e.Message = "Scanning " \o RepoOrder[i])

\* the result of the scan as a function of the configuration and of what the
\* provider answered alone: the k-th listing and the scans made under it, from
\* the j-th scanRepository call on, applied to res
RECURSIVE ReplayScans(_, _, _)
ReplayScans(res, k, j) ==
    IF j > Len(scans) \/ scans[j].listing # k THEN res
    ELSE LET s == scans[j]
             listed == [err |-> s.listFailed, items |-> s.images]
         IN  ReplayScans(IF provider = "ecr"
                         THEN ECR_scanRepository(cfg, s.location, s.repo, listed,
                                                 HasLifecyclePolicy(s.lifecycle), res)
                         ELSE AR_scanRepository(cfg, s.repo, listed, res),
                         k, j + 1)

RECURSIVE ReplayListings(_, _, _)
ReplayListings(res, k, j) ==
    IF k > Len(listings) THEN res
    ELSE LET l == listings[k]
             listed == [err |-> l.failed, items |-> l.repos]
             under == Len(SelectSeq(scans, LAMBDA s : s.listing = k))
         IN  ReplayListings(
                 ReplayScans(IF provider = "ecr"
                             THEN ECR_listed(l.location, listed, res)
                             ELSE AR_listed(l.location, listed, res),
                             k, j),
                 k + 1, j + under)

\* the enumeration so far is complete, in order and announced
Enumeration ==
    /\ \A k \in 1..Len(listings) :
         (~listings[k].failed /\ (k < Len(listings) \/ pc = "done")) =>
             /\ ScannedUnder(k) = ListedNotExcluded(listings[k])
             /\ \A i, j \in 1..Len(ScannedUnder(k)) :
                  i # j => ScannedUnder(k)[i] # ScannedUnder(k)[j]
    /\ progress = "callback" =>
         /\ Len(ScanningEvents) = Len(scans)
         /\ \A k \in 1..Len(scans) :
              /\ ScanningEvents[k].Message = "Scanning " \o ScanRepoID(scans[k])
              /\ ScanningEvents[k].Region = scans[k].location
              /\ scans[k].reported >= 1
              /\ events[scans[k].reported] = ScanningEvents[k]
    /\ progress = "nil" => events = << >>
    /\ result = ReplayListings(EmptyScanResult, 1, 1)

\* C25: in a scan whose repository listing succeeds every listed repository that
\* is not excluded is processed exactly once and in listing order, whatever
\* fails in the other repositories: with a callback its "Scanning <repo>" event
\* has been reported when its image listing is attempted, one image listing is
\* attempted for it, and the scan returns after the last repository (it is
\* never stuck before, and every step brings it closer); the result is the same
\* function of the provider's answers with a nil callback as with a callback.
C25_CompleteEnumeration ==
    /\ []Enumeration
    /\ [](pc = "done" \/ ENABLED Next)
    /\ [][ /\ ScanProgressMeasure' > ScanProgressMeasure
           /\ ScanProgressMeasure' <= (Len(locations) + 2) * (Len(RepoOrder) + 3)
           /\ Len(scans') <= Len(scans) + 1 ]_vars

\* a finished scan with a callback: the image listing of the first of two
\* repositories failed, the second was scanned all the same, and both were
\* announced, in listing order
C25_Witness ==
    /\ pc = "done"
    /\ progress = "callback"
    /\ Len(scans) = 2
    /\ scans[1].listFailed
    /\ ~scans[2].listFailed /\ Len(scans[2].images) > 0
    /\ Len(ScanningEvents) = 2
    /\ ScanningEvents[1].Message = "Scanning " \o RepoOrder[1]
    /\ ScanningEvents[2].Message = "Scanning " \o RepoOrder[2]
    /\ Len(result.Errors) = 1

----------------------------------------------------------------------------
(* internal/commands: runAWS / runGCP and selectReporter.  The scan between the
   construction of the ScanConfig and the report is the state machine Next. *)

BytesPerMB == 1024 * 1024

\* the registry.ScanConfig runAWS / runGCP build from the flag variables (no
\* exclusion declared); MinMonthlyCost in cents
BuildScanConfig(fl) ==
    [StaleDays |-> fl.staleDays,
     MaxSizeBytes |-> fl.maxSizeMB * BytesPerMB,
     MinMonthlyCost |-> fl.minMonthlyCost,
     Exclude |-> [ResourceIDs |-> {}, Tags |-> << >>]]

ReportFormatNames == {"text", "json", "sarif", "spectrehub"}

\* selectReporter: the output file is created (truncated when it exists) before
\* the format is looked at; `creates` is whether os.Create succeeds
selectReporter(format, outputFile, fs, creates) ==
    IF outputFile # "" /\ ~creates
    THEN [err |-> "create output file", reporter |-> "", files |-> fs]
    ELSE LET opened == IF outputFile # "" THEN [fs EXCEPT ![outputFile] = "empty"] ELSE fs
         IN  IF format \in ReportFormatNames
             THEN [err |-> "", reporter |-> format, files |-> opened]
             ELSE [err |-> "unsupported format: " \o format, reporter |-> "",
                   files |-> opened]

\* the flag variables after cobra parsed a command line that may pass any value
CommandFlags(p) ==
    { [f EXCEPT !.format = format, !.staleDays = staleDays, !.maxSizeMB = maxSizeMB,
                !.outputFile = outputFile] :
        f \in (IF p = "ecr"
               THEN {FlagDefaults(p)}
               ELSE {FlagDefaults(p), [FlagDefaults(p) EXCEPT !.project = "p"]}),
        format \in {DefaultFormat, "sarif", "xml"},
        staleDays \in {DefaultStaleDays, 30, -1},
        maxSizeMB \in {DefaultMaxSizeMB, 0, -1},
        outputFile \in {"", OutputPath} }

\* the configuration files tried by the commands
CommandConfigFiles(p) ==
    { Config(format, staleDays, maxSizeMB, 0, "") :
        format \in {"", "json"}, staleDays \in {0, 60}, maxSizeMB \in {0, 256} }

NoError == ""

InitCommand ==
    /\ provider \in Provider
    /\ cfg = NoScanConfig
    /\ locations = <<ECRRegion>>
    /\ ScanIdle
    /\ pc = "run"
    /\ flags \in CommandFlags(provider)
    /\ files \in [{OutputPath} -> {"absent", "old"}]
    /\ arg = NoArg
    /\ ret = NoArg

\* runGCP without a project: the command returns before it loads the configuration
Cmd_RunGCP_NoProject ==
    /\ pc = "run"
    /\ provider = "artifactregistry"
    /\ flags.project = ""
    /\ pc' = "failed"
    /\ ret' = [err |-> "--project is required for GCP scans"]
    /\ UNCHANGED <<provider, cfg, locations, idleVars, arg, flags, files>>

\* runAWS / runGCP up to the call of Scan: load the configuration file, apply it
\* to the flags, initialise the client (which may fail), build the ScanConfig
Cmd_Run ==
    /\ pc = "run"
    /\ provider = "artifactregistry" => flags.project # ""
    /\ \E c \in CommandConfigFiles(provider) : \E clientOK \in BOOLEAN :
         LET applied == applyConfigDefaults(provider, flags, c)
         IN  /\ flags' = applied
             /\ arg' = c
             /\ IF clientOK
                THEN /\ cfg' = BuildScanConfig(applied)
                     /\ pc' = "scan"
                     /\ ret' = ret
                ELSE /\ cfg' = cfg
                     /\ pc' = "failed"
                     /\ ret' = [err |-> "initialize client"]
    /\ UNCHANGED <<provider, locations, idleVars, files>>

\* runAWS / runGCP from the call of Scan on: the scanner works with the
\* ScanConfig it was handed, the result is analysed, the reporter is selected
\* and writes the report
Cmd_Report ==
    /\ pc = "scan"
    /\ \E creates \in BOOLEAN :
         LET selected == selectReporter(flags.format, flags.outputFile, files, creates)
         IN  /\ ret' = [err |-> selected.err]
             /\ pc' = IF selected.err = NoError THEN "exit" ELSE "failed"
             /\ files' = IF selected.err = NoError /\ flags.outputFile # ""
                         THEN [selected.files EXCEPT ![flags.outputFile] = "report"]
                         ELSE selected.files
    /\ UNCHANGED <<provider, cfg, locations, idleVars, arg, flags>>

NextCommand == Cmd_RunGCP_NoProject \/ Cmd_Run \/ Cmd_Report

SpecCommand == InitCommand /\ [][NextCommand]_vars

----------------------------------------------------------------------------
(* Claims about the commands (checked under SpecCommand) *)

\* C26: the ScanConfig the aws or gcp command hands to a scanner has
\* staleDays >= 0 and maxSizeBytes >= 0, whatever the command line and the
\* configuration file hold, and it does not change while the scan runs.
C26_ScanConfigInvariant ==
    /\ [](pc = "scan" => cfg.StaleDays >= 0 /\ cfg.MaxSizeBytes >= 0)
    /\ [][pc = "scan" => cfg' = cfg]_vars

\* C30: when the format is none of text, json, sarif and spectrehub,
\* selectReporter returns an error and leaves the file system as it was: the
\* file --output names is neither created nor truncated.
C30_UnsupportedFormat ==
    [][ (pc = "scan" /\ flags.format \notin ReportFormatNames) =>
            /\ pc' = "failed"
            /\ ret'.err # NoError
            /\ files' = files ]_vars


----------------------------------------------------------------------------
(* Scan under a tag exclusion set *)

\* ExcludeConfig.Tags as parseExcludeTags builds it: nil when no tag is given,
\* else a map from key to value ("" for a bare key)
ExcludeTagMaps == { << >>, ("v2" :> "" @@ "env" :> "prod") }

TagConfigs ==
    [StaleDays : {MaxStaleDays},
     MaxSizeBytes : {MaxSize - 1},
     MinMonthlyCost : {0},
     Exclude : [ResourceIDs : {{}, {RepoOrder[1]}}, Tags : ExcludeTagMaps]]

InitTags ==
    /\ provider \in Provider
    /\ cfg \in TagConfigs
    /\ locations \in (IF provider = "ecr" THEN { <<ECRRegion>> } ELSE LocationLists)
    /\ includeScan = FALSE
    /\ deadline = "none"
    /\ progress = "nil"
    /\ ScanEntry

SpecTags == InitTags /\ [][Next]_vars

----------------------------------------------------------------------------
(* Claims about the tag exclusion set (checked under SpecTags) *)

\* the configuration of the scan but for its tag exclusion set
WithoutExcludeTags(c) == [c EXCEPT !.Exclude.Tags = << >>]

\* the result of the scan as a function of configuration c and of what the
\* provider answered: as ReplayScans / ReplayListings, under c
RECURSIVE ReplayScansUnder(_, _, _, _)
ReplayScansUnder(c, res, k, j) ==
    IF j > Len(scans) \/ scans[j].listing # k THEN res
    ELSE LET s == scans[j]
             listed == [err |-> s.listFailed, items |-> s.images]
         IN  ReplayScansUnder(c,
                              IF provider = "ecr"
                              THEN ECR_scanRepository(c, s.location, s.repo, listed,
                                                      HasLifecyclePolicy(s.lifecycle), res)
                              ELSE AR_scanRepository(c, s.repo, listed, res),
                              k, j + 1)

RECURSIVE ReplayListingsUnder(_, _, _, _)
ReplayListingsUnder(c, res, k, j) ==
    IF k > Len(listings) THEN res
    ELSE LET l == listings[k]
             listed == [err |-> l.failed, items |-> l.repos]
             under == Len(SelectSeq(scans, LAMBDA s : s.listing = k))
         IN  ReplayListingsUnder(c,
                 ReplayScansUnder(c,
                                  IF provider = "ecr"
                                  THEN ECR_listed(l.location, listed, res)
                                  ELSE AR_listed(l.location, listed, res),
                                  k, j),
                 k + 1, j + under)

\* the tags of an image of either provider
TagsOfImage(image) == IF provider = "ecr" THEN image.ImageTags ELSE image.Tags

\* the image carries a tag whose name is a key of the tag exclusion set
CarriesExcludedTag(image) ==
    \E i \in 1..Len(TagsOfImage(image)) : TagsOfImage(image)[i] \in DOMAIN cfg.Exclude.Tags

----------------------------------------------------------------------------
(* From the scanners to Analyze: what one repository, or one image's scan
   findings, contributes and what Analyze retains of it *)

\* the --min-monthly-cost values tried: negative, zero, the smallest positive
\* cost and the cost of storing one byte
MinMonthlyCosts == {-1, 0, 1, ThresholdCost}

PipelineConfig(min) ==
    [StaleDays |-> MaxStaleDays, MaxSizeBytes |-> MaxSize - 1, MinMonthlyCost |-> min,
     Exclude |-> [ResourceIDs |-> {}, Tags |-> << >>]]

\* an ECR repository (its images and its lifecycle-policy lookup), an Artifact
\* Registry repository, or the scan findings of one ECR image
PipelineInputs ==
    [producer : {"ecr"}, images : ECR_ImageLists, lifecycle : LifecycleReplies,
     min : MinMonthlyCosts]
    \cup { [producer |-> "artifactregistry", images |-> l, min |-> m] :
             l \in AR_ImageLists(ARRepository("us", RepoOrder[1])), m \in MinMonthlyCosts }
    \cup [producer : {"vulnerabilities"}, reply : ScanReplies, min : MinMonthlyCosts]

InitPipeline ==
    /\ NoScan
    /\ pc = "scan"
    /\ arg \in PipelineInputs
    /\ ret = NoArg

\* scanRepository of either scanner, into an empty result
Pipeline_scanRepository ==
    /\ pc = "scan"
    /\ arg.producer \in {"ecr", "artifactregistry"}
    /\ ret' = IF arg.producer = "ecr"
              THEN ECR_scanRepository(PipelineConfig(arg.min), ECRRegion, RepoOrder[1],
                                      [err |-> FALSE, items |-> arg.images],
                                      HasLifecyclePolicy(arg.lifecycle), EmptyScanResult)
              ELSE AR_scanRepository(PipelineConfig(arg.min), ARRepository("us", RepoOrder[1]),
                                     [err |-> FALSE, items |-> arg.images], EmptyScanResult)
    /\ pc' = "analyze"
    /\ UNCHANGED <<scanVars, arg>>

\* ScanVulnerabilities for one image, its findings gathered in a ScanResult
Pipeline_ScanVulnerabilities ==
    /\ pc = "scan"
    /\ arg.producer = "vulnerabilities"
    /\ ret' = [EmptyScanResult EXCEPT
                 !.Findings = ScanVulnerabilities(ECRRegion, RepoOrder[1], DigestNames[1],
                                                  arg.reply).findings]
    /\ pc' = "analyze"
    /\ UNCHANGED <<scanVars, arg>>

\* analyzer.Analyze(result, AnalyzerConfig{MinMonthlyCost: flags.minMonthlyCost});
\* `ret` keeps the scan result next to the analysis
Pipeline_Analyze ==
    /\ pc = "analyze"
    /\ ret' = [scanned |-> ret, analysis |-> Analyze(ret, [MinMonthlyCost |-> arg.min])]
    /\ pc' = "returned"
    /\ UNCHANGED <<scanVars, arg>>

NextPipeline ==
    \/ Pipeline_scanRepository
    \/ Pipeline_ScanVulnerabilities
    \/ Pipeline_Analyze

SpecPipeline == InitPipeline /\ [][NextPipeline]_vars

----------------------------------------------------------------------------
(* Claims about the findings without a cost estimate (checked under SpecPipeline) *)

\* a NO_LIFECYCLE_POLICY finding, a VULNERABLE_IMAGE finding, or the UNUSED_REPO
\* finding of a repository whose image listing was empty
IsCostFreeKind(f) ==
    \/ f.ID = FindingNoLifecyclePolicy
    \/ f.ID = FindingVulnerableImage
    \/ f.ID = FindingUnusedRepo /\ arg.producer # "vulnerabilities" /\ Len(arg.images) = 0

CostFree(findings) == SelectSeq(findings, IsCostFreeKind)

\* C28: every NO_LIFECYCLE_POLICY finding, every VULNERABLE_IMAGE finding and
\* every UNUSED_REPO finding of an empty repository carries an estimated monthly
\* waste of 0; Analyze with a minimum monthly cost above 0 retains none of
\* them, and with a minimum of 0 or less it retains all of them.
C28_CostFreeFindings ==
    /\ pc = "analyze" =>
         \A i \in 1..Len(ret.Findings) :
             IsCostFreeKind(ret.Findings[i]) => ret.Findings[i].EstimatedMonthlyWaste = 0
    /\ pc = "returned" =>
         /\ arg.min > 0 => CostFree(ret.analysis.Findings) = << >>
         /\ arg.min <= 0 => CostFree(ret.analysis.Findings) = CostFree(ret.scanned.Findings)

\* a repository without a lifecycle policy whose images are reported: under a
\* positive minimum Analyze kept an image finding and dropped the policy finding
C28_Witness ==
    /\ pc = "returned"
    /\ arg.min > 0
    /\ \E i \in 1..Len(ret.scanned.Findings) :
         ret.scanned.Findings[i].ID = FindingNoLifecyclePolicy
    /\ ret.analysis.Findings # << >>
    /\ CostFree(ret.analysis.Findings) = << >>


----------------------------------------------------------------------------
(* Claims about successive invocations in one process (checked under SpecDefaults) *)

\* the settings the flag variables would hold had the last configuration file
\* been applied to the defaults
FreshSettings == applyConfigDefaults(provider, FlagDefaults(provider), arg.config)

\* C29: when no flag is passed, the effective format, stale-days, max-size and
\* min-monthly-cost after a second (or later) configuration file has been
\* applied in the same process are those of that file, or the defaults where
\* it sets nothing, never values left over from an earlier file.
C29_NoLeftover ==
    (arg.runs >= 2 /\ arg.parsed = FlagDefaults(provider)) =>
        /\ flags.format = FreshSettings.format
        /\ flags.staleDays = FreshSettings.staleDays
        /\ flags.maxSizeMB = FreshSettings.maxSizeMB
        /\ flags.minMonthlyCost = FreshSettings.minMonthlyCost
====
